---- MODULE Spec2Model ----
(***************************************************************************)
(* Market simulator: the daily transition (runEndOfDayLogic), the clock    *)
(* loop (advanceTime), the four deferred-outcome ledgers and the player    *)
(* trades (playerBuyStock / playerSellStock) of services/simulationService.*)
(*                                                                         *)
(* Numbers.  The source computes in doubles.  Here money is carried in     *)
(* cents (the source's price floor 0.01 is 1), multiplicative factors in   *)
(* thousandths, momentum in ten-thousandths, shares outstanding in         *)
(* millions, time in seconds since 2024-01-01T00:00:00Z (the UTC midnight  *)
(* of startDate).  A product or quotient is rounded to the nearest unit.   *)
(* Math.random() and the output of a network are choices from small sets.  *)
(***************************************************************************)
EXTENDS Integers, Sequences, FiniteSets, TLC

(***************************** bounds **************************************)
\* simulated days the model runs beyond the initial day
MaxDays == 3
\* draws and host inputs that depart from the default outcome (a random
\* draw other than the neutral one, a network output that triggers an
\* action, a speed other than 1d/s, an accepted player order); orders are
\* placed while a departure remains
MaxChoices == 1

(************************ program constants ********************************)
INITIAL_HISTORY_LENGTH == 252
MIN_CORPORATE_ACTION_INTERVAL == 20
CORPORATE_ACTION_INTERVAL_RANGE == 30
secondsInDay == 86400
AI_INITIAL_INVESTOR_CASH == 100
HUMAN_INITIAL_INVESTOR_CASH == 1000000
\* MIN_STOCK_SPLIT_PRICE = 250, in cents
MIN_STOCK_SPLIT_PRICE == 250 * 100
\* evaluation horizons of the ledgers
TradeHorizon == 5
NewsHorizon == 5
ArticleHorizon == 5
SplitHorizon == 60
AllianceHorizon == 90
AcquisitionHorizon == 180

\* the stock list, in list order (stocks[0] is the first)
STOCK_SYMBOLS == <<"AAPL", "SAP", "JPM">>
Syms == {STOCK_SYMBOLS[i] : i \in 1..Len(STOCK_SYMBOLS)}

Sector(s) == IF s = "JPM" THEN "Finance" ELSE "Technology"
RegionOf(s) == IF s = "SAP" THEN "Europe" ELSE "North America"

\* the investor list, in list order: the human first, then the AI investors
InvestorIds == <<"human-player", "ai-1", "ai-2">>
Invs == {InvestorIds[i] : i \in 1..Len(InvestorIds)}
IsHuman(i) == i = "human-player"
\* ai-1 is hyperComplex (owns a network); ai-2 is a chaos agent (random)
HasNetwork(i) == i = "ai-1"

(****************************** arithmetic *********************************)
Max(a, b) == IF a >= b THEN a ELSE b
Min(a, b) == IF a <= b THEN a ELSE b
Abs(a) == IF a >= 0 THEN a ELSE -a
\* a / b rounded to the nearest unit (a >= 0, b > 0)
RDiv(a, b) == (2 * a + b) \div (2 * b)
\* signed variant
SDiv(a, b) == IF a >= 0 THEN RDiv(a, b) ELSE -RDiv(-a, b)
\* price * factor, factor in thousandths
MulF(p, f) == RDiv(p * f, 1000)
Last(seq) == seq[Len(seq)]
RECURSIVE SumSeq(_)
SumSeq(seq) == IF seq = <<>> THEN 0 ELSE seq[1] + SumSeq(Tail(seq))
Range(seq) == {seq[i] : i \in 1..Len(seq)}
\* Array.prototype.filter
RECURSIVE SelectSeqIdx(_, _, _)
SelectSeqIdx(seq, keep, i) ==
    IF i > Len(seq) THEN <<>>
    ELSE (IF i \in keep THEN <<seq[i]>> ELSE <<>>) \o SelectSeqIdx(seq, keep, i + 1)


(****************************** state **************************************)
VARIABLES
    \* SimulationState
    day, time, stocks, investors, activeEvent, eventHistory,
    marketIndexHistory, nextMacroEventDay,
    trackedCorporateActions, trackedNewsEvents, trackedGeneratedArticles,
    \* advanceTime: position and locals
    pc, currentTime, endDate, nextDayBoundary,
    \* runEndOfDayLogic: locals
    dailyImpacts, dailyTradeVolumes, ci,
    \* observation: training calls made, ledger entries ever recorded,
    \* steps run in the current daily transition, shares bought and sold,
    \* the current advanceTime call, the last player call, the last split,
    \* the features last computed and the draws used so far
    trainLog, recorded, nextId, phaseLog, bought, sold, call, lastCall,
    lastSplit, lastFeatures, used,
    \* the midnights at which runEndOfDayLogic has been invoked so far, and
    \* the clock of a second run that covers the same days in one call
    invoked, twin

simVars == <<day, time, stocks, investors, activeEvent, eventHistory,
             marketIndexHistory, nextMacroEventDay,
             trackedCorporateActions, trackedNewsEvents,
             trackedGeneratedArticles>>
loopVars == <<pc, currentTime, endDate, nextDayBoundary>>
eodVars == <<dailyImpacts, dailyTradeVolumes, ci>>
obsVars == <<trainLog, recorded, nextId, phaseLog, bought, sold, call,
             lastCall, lastSplit, lastFeatures, used>>
eqVars == <<invoked, twin>>
vars == <<simVars, loopVars, eodVars, obsVars, eqVars>>

\* the day the model starts on: two years in, every window full
StartDay == 727
\* the seconds-of-day the model may start at (09:30:00Z is the clock of
\* initializeState; midnight is reached through the 1m/s speed)
StartClock == {34200, 0}

NoEvent == [id |-> 0, day |-> 0, stockSymbol |-> "null", type |-> "none",
            kind |-> "none", f |-> 1000, m |-> {}, region |-> "none"]

\* a history of n points ending on day d, flat at price p; the last point
\* is the one seeded for the running day
FlatHistory(n, d, p) ==
    [i \in 1..n |-> [day |-> d - n + i, open |-> p, high |-> p, low |-> p,
                     close |-> p,
                     volume |-> IF i = n THEN 0 ELSE 25000]]

ActiveSyms(st) == {s \in Syms : ~st[s].isDelisted}

\* equal-weighted mean close of the non-delisted companies
MarketIndex(st) ==
    LET act == ActiveSyms(st)
        RECURSIVE Sum(_)
        Sum(S) == IF S = {} THEN 0
                  ELSE LET x == CHOOSE y \in S : TRUE
                       IN Last(st[x].history).close + Sum(S \ {x})
    IN IF act # {} THEN RDiv(Sum(act), Cardinality(act)) ELSE 0

InitStocks(hi) ==
    [s \in Syms |->
        [isDelisted |-> FALSE,
         sharesOutstanding |-> 100,
         eps |-> 300,
         nextCorporateActionDay |-> StartDay + 1,
         history |-> FlatHistory(INITIAL_HISTORY_LENGTH + 50, StartDay,
                                 IF s = hi THEN 29900 ELSE 1000)]]

\* the value undefined, where a token trace is expected
Undefined == <<"undefined", 0>>

SeedLot == [id |-> 1, purchaseTime |-> (StartDay - 5) * secondsInDay + 34200,
            purchasePrice |-> 1000, shares |-> 2]
SeedLotB == [id |-> 7, purchaseTime |-> (StartDay - 3) * secondsInDay + 34200,
             purchasePrice |-> 1000, shares |-> 3]
\* the lots of the human player: one held for more than a year
SeedLotH == [id |-> 8, purchaseTime |-> (StartDay - 400) * secondsInDay + 34200,
             purchasePrice |-> 900, shares |-> 1]
SeedLotI == [id |-> 9, purchaseTime |-> (StartDay - 2) * secondsInDay + 34200,
             purchasePrice |-> 1000, shares |-> 3]
\* two shares of the company priced above MIN_STOCK_SPLIT_PRICE
SeedLotS == [id |-> 10, purchaseTime |-> (StartDay - 2) * secondsInDay + 34200,
             purchasePrice |-> 29900, shares |-> 2]
SeedTrade == [id |-> 2, symbol |-> "JPM", day |-> StartDay - 4, type |-> "buy",
              shares |-> 2, price |-> 1000,
              indicatorValuesAtTrade |-> <<0, 0>>,
              outcomeEvaluationDay |-> StartDay - 4 + TradeHorizon]
SeedMacro == [id |-> 3, day |-> StartDay - 4, stockSymbol |-> "null",
              type |-> "political", kind |-> "scalar", f |-> 990,
              m |-> {}, region |-> "Global"]
SeedNews == [id |-> 4, startDay |-> StartDay - 4,
             evaluationDay |-> StartDay - 4 + NewsHorizon,
             inputIndicators |-> <<0>>, chosenCategoryIndex |-> 8,
             startingMarketIndex |-> 10633]
SeedArticle == [id |-> 5, startDay |-> StartDay - 4,
                evaluationDay |-> StartDay - 4 + ArticleHorizon,
                startingMarketIndex |-> 10633, generatedTokens |-> Undefined]
SeedCorp(hi) == [id |-> 6, startDay |-> StartDay + 2 - AllianceHorizon,
             evaluationDay |-> StartDay + 2,
             stockSymbol |-> "AAPL", actionType |-> "alliance",
             indicatorValuesAtAction |-> <<0, 0>>,
             startingStockPrice |-> IF hi = "AAPL" THEN 29900 ELSE 1000,
             startingMarketIndex |-> 10633]

\* the event list as a long run leaves it: the latest event first, the
\* list at its cap of 100
SeedEvents ==
    [k \in 1..100 |->
        IF k = 1 THEN SeedMacro
        ELSE [id |-> 0, day |-> StartDay - 4 - k, stockSymbol |-> "null",
              type |-> "neutral", kind |-> "none", f |-> 1000, m |-> {},
              region |-> "Global"]]

InitInvestors ==
    [i \in Invs |->
        [cash |-> IF IsHuman(i) THEN HUMAN_INITIAL_INVESTOR_CASH * 100 - 63700
                  ELSE IF i = "ai-1" THEN AI_INITIAL_INVESTOR_CASH * 100 - 5000
                  ELSE AI_INITIAL_INVESTOR_CASH * 100,
         portfolio |-> IF i = "ai-1"
                       THEN <<[symbol |-> "JPM", lots |-> <<SeedLot, SeedLotB>>]>>
                       ELSE IF IsHuman(i)
                       THEN <<[symbol |-> "JPM", lots |-> <<SeedLotH, SeedLotI>>],
                              [symbol |-> "SAP", lots |-> <<SeedLotS>>]>>
                       ELSE <<>>,
         portfolioHistory |-> [k \in 1..200 |->
                                 [day |-> StartDay - 200 + k,
                                  value |-> IF IsHuman(i)
                                            THEN HUMAN_INITIAL_INVESTOR_CASH * 100
                                            ELSE AI_INITIAL_INVESTOR_CASH * 100]],
         totalTaxesPaid |-> 0,
         waAnnualNetLTCG |-> 0,
         recentTrades |-> IF i = "ai-1" THEN <<SeedTrade>> ELSE <<>>]]

Rec(ledger, id, startDay, evaluationDay) ==
    [ledger |-> ledger, id |-> id, startDay |-> startDay,
     evaluationDay |-> evaluationDay]

\* the outputs of the three corporate networks for the company the
\* corporate step has just been through, none outside that step
NoDecision == [company |-> "none", scored |-> FALSE, splitScore |-> 0,
               allianceScore |-> 0, acquisitionScore |-> 0]

NoCall == [op |-> "none", investor |-> "none", symbol |-> "none",
           shares |-> 0, why |-> "none", before |-> <<>>, input |-> <<>>]
\* the owners of the networks reachable from a SimulationState: the
\* hyperComplex investors, the corporateAI of every company (its three
\* networks taken together) and newsPickerAI
Networks == {i \in Invs : HasNetwork(i)} \cup Syms \cup {"newsPickerAI"}

\* the backpropagate calls made so far on the networks of owner n: each
\* call updates the weight and bias arrays of the network in place, so the
\* count tells the contents of the arrays apart
Backpropagated(log, n) ==
    Cardinality({k \in 1..Len(log) : log[k].net = n})

NoAdvance == [start |-> 0, startDay |-> 0, secs |-> 0, entered |-> <<>>,
              steps |-> 0, weights |-> [n \in Networks |-> 0]]

\* the departures from the default outcomes made so far
Spent(u) ==
    u.trades + u.corp + u.events + u.moves + u.calls + u.speeds + u.quiet
CanSpend(k) == Spent(used) + k <= MaxChoices

\* a running simulation: day StartDay, every window full, one pending
\* entry in each ledger, lots held by ai-1 and by the human player
InitFrom(clock, invs, st) ==
    /\ day = StartDay
    /\ time = StartDay * secondsInDay + clock
    /\ stocks = st
    /\ investors = invs
    /\ activeEvent = NoEvent
    /\ eventHistory = SeedEvents
    /\ marketIndexHistory =
          [i \in 1..(INITIAL_HISTORY_LENGTH + 50) |->
              [day |-> StartDay - (INITIAL_HISTORY_LENGTH + 50) + i,
               price |-> 10633]]
    /\ nextMacroEventDay = StartDay + 2
    /\ trackedCorporateActions = <<SeedCorp("SAP")>>
    /\ trackedNewsEvents = <<SeedNews>>
    /\ trackedGeneratedArticles = <<SeedArticle>>
    /\ pc = "idle"
    /\ currentTime = time
    /\ endDate = time
    /\ nextDayBoundary = (StartDay + 1) * secondsInDay
    /\ dailyImpacts = [s \in Syms |-> 1000]
    /\ dailyTradeVolumes = [s \in Syms |-> 0]
    /\ ci = 1
    /\ trainLog = <<>>
    /\ recorded = {Rec("trade", 2, StartDay - 4, StartDay + 1),
                   Rec("news", 4, StartDay - 4, StartDay + 1),
                   Rec("article", 5, StartDay - 4, StartDay + 1),
                   Rec("corporate", 6, StartDay + 2 - AllianceHorizon, StartDay + 2)}
    /\ nextId = 11
    /\ phaseLog = <<>>
    /\ bought = [i \in Invs |-> [s \in Syms |->
                    IF i = "ai-1" /\ s = "JPM" THEN 5
                    ELSE IF IsHuman(i) /\ s = "JPM" THEN 4
                    ELSE IF IsHuman(i) /\ s = "SAP" THEN 2 ELSE 0]]
    /\ sold = [i \in Invs |-> [s \in Syms |-> 0]]
    /\ call = NoAdvance
    /\ lastCall = NoCall
    /\ lastSplit = [symbol |-> "none", ratio |-> 0, close |-> 0,
                    sharesOutstanding |-> 0, eps |-> 0, decided |-> NoDecision]
    /\ lastFeatures = [s \in Syms |-> [sector |-> 0, region |-> 0, day |-> 0]]
    /\ invoked = <<>>

InitWith(clock, invs) == InitFrom(clock, invs, InitStocks("SAP"))

InitState(clock) == InitWith(clock, InitInvestors)

NoTwin == [pc |-> "off", n |-> 0, start |-> 0, day |-> 0, time |-> 0,
           currentTime |-> 0, endDate |-> 0, nextDayBoundary |-> 0,
           entered |-> <<>>]

Init ==
    \E clock \in StartClock :
        /\ InitState(clock)
        /\ used = [trades |-> 0, corp |-> 0, events |-> 0, moves |-> 0, quiet |-> 0,
                   calls |-> 0, speeds |-> IF clock = 34200 THEN 0 ELSE 1]
        /\ twin = NoTwin


(************************** advanceTime ************************************)
\* the speeds the host passes (SIMULATION_SPEEDS: 12h/s, 1d/s, 3d/s)
Speeds == {43200, 86400, 259200}
\* the speed the host starts with, SIMULATION_SPEEDS[6]
DefaultSpeed == 86400
\* Math.random() in hundredths, for the diffusion draw
RandDraws == {0, 50, 99}
\* the draws of one diffusion step, one per company
DrawPatterns ==
    {[s \in Syms |-> 50],
     [s \in Syms |-> IF s = "AAPL" THEN 99 ELSE 50],
     [s \in Syms |-> IF s = "AAPL" THEN 0 ELSE 50],
     [s \in Syms |-> IF s = "SAP" THEN 99 ELSE IF s = "JPM" THEN 0 ELSE 50]}

ISqrt(x) == CHOOSE r \in 0..100 : r * r <= x /\ x < (r + 1) * (r + 1)

\* the midnight of the running day: the boundary without its day added
MidnightOfSameDay(t) == (t \div secondsInDay) * secondsInDay

\* the UTC midnight following t (setUTCHours(0,0,0,0), setUTCDate(+1))
NextMidnight(t) == ((t \div secondsInDay) + 1) * secondsInDay

\* lastHistory.close * (1 + (Math.random() - 0.5) * volatility), floored at
\* 0.01, volatility = sqrt(stepSeconds) * 0.03 / sqrt(secondsInDay)
Diffuse(close, r, stepSeconds) ==
    LET q == (stepSeconds * 10000) \div secondsInDay
    IN Max(1, close + SDiv(close * (r - 50) * 3 * ISqrt(q), 1000000))

DiffusePoint(pt, r, stepSeconds) ==
    LET newPrice == Diffuse(pt.close, r, stepSeconds)
    IN [pt EXCEPT !.close = newPrice,
                  !.high = Max(pt.high, newPrice),
                  !.low = Min(pt.low, newPrice)]

\* Math.min(remainingTime, timeToNextDay)
StepSeconds(cur, end, boundary) == Min(end - cur, boundary - cur)

\* the boundary moved on by two days
BoundarySkipsADay(boundary) == boundary + 2 * secondsInDay

\* nextDayBoundary.setUTCDate(nextDayBoundary.getUTCDate() + 1)
NextBoundary(boundary) == boundary + secondsInDay

\* lines 834-852: whose weight and bias arrays the network of the working
\* state holds once advanceTime has re-instantiated it. structuredClone
\* copies the arrays; Object.assign(new NeuralNetwork([]), originalNetwork)
\* then assigns the own properties of prevState's network, the arrays
\* themselves, over the fresh instance
Reinstantiated(n) == "prevState"

\* the contents of the arrays of prevState's network of owner n, as a
\* running advanceTime call has left them
PrevStateWeights(n) ==
    IF Reinstantiated(n) = "prevState"
    THEN Backpropagated(trainLog, n)
    ELSE call.weights[n]

AdvanceTimeBegin ==
    /\ pc = "idle"
    /\ \E secs \in Speeds :
        /\ (time + secs) \div secondsInDay <= StartDay + MaxDays
        /\ CanSpend(IF secs = DefaultSpeed THEN 0 ELSE 1)
        /\ used' = [used EXCEPT !.speeds = IF secs = DefaultSpeed THEN @ ELSE @ + 1]
        /\ currentTime' = time
        /\ endDate' = time + secs
        /\ nextDayBoundary' = NextMidnight(time)
        /\ call' = [start |-> time, startDay |-> day, secs |-> secs,
                    entered |-> <<>>, steps |-> 0,
                    weights |-> [n \in Networks |->
                                    Backpropagated(trainLog, n)]]
    /\ pc' = "loop"
    /\ UNCHANGED <<simVars, eodVars, trainLog, recorded, nextId, phaseLog,
                   bought, sold, lastCall, lastSplit, lastFeatures>>
    /\ UNCHANGED eqVars

\* one iteration of the while loop up to the day-boundary test
LoopStep ==
    /\ pc = "loop"
    /\ currentTime < endDate
    /\ LET stepSeconds == StepSeconds(currentTime, endDate, nextDayBoundary)
       IN /\ currentTime' = currentTime + stepSeconds
          /\ \E draw \in DrawPatterns :
               LET moved == {s \in Syms : draw[s] # 50 /\ ~stocks[s].isDelisted}
                   cost == IF moved = {} THEN 0 ELSE 1
               IN /\ CanSpend(cost)
                  /\ used' = [used EXCEPT !.moves = @ + cost]
                  /\ stocks' = [s \in Syms |->
                        IF stocks[s].isDelisted THEN stocks[s]
                        ELSE [stocks[s] EXCEPT !.history[Len(stocks[s].history)] =
                                 DiffusePoint(@, draw[s], stepSeconds)]]
          /\ pc' = IF currentTime' >= nextDayBoundary THEN "settle" ELSE "loop"
          /\ phaseLog' = <<>>
          /\ call' = [call EXCEPT
                !.steps = @ + 1,
                !.entered = IF currentTime + stepSeconds >= nextDayBoundary
                            THEN Append(@, nextDayBoundary) ELSE @]
          /\ invoked' = IF currentTime + stepSeconds >= nextDayBoundary
                        THEN Append(invoked, nextDayBoundary) ELSE invoked
    /\ UNCHANGED <<day, time, investors, activeEvent, eventHistory,
                   marketIndexHistory, nextMacroEventDay,
                   trackedCorporateActions, trackedNewsEvents,
                   trackedGeneratedArticles, endDate, nextDayBoundary,
                   eodVars, trainLog, recorded, nextId, bought, sold,
                   lastCall, lastSplit, lastFeatures>>
    /\ UNCHANGED twin

\* runEndOfDayLogic has returned: state.day++, next boundary
DayIncrement ==
    /\ pc = "return"
    /\ day' = day + 1
    /\ nextDayBoundary' = NextBoundary(nextDayBoundary)
    /\ pc' = "loop"
    /\ UNCHANGED <<time, stocks, investors, activeEvent, eventHistory,
                   marketIndexHistory, nextMacroEventDay,
                   trackedCorporateActions, trackedNewsEvents,
                   trackedGeneratedArticles, currentTime, endDate, eodVars,
                   obsVars>>
    /\ UNCHANGED eqVars

\* the loop has ended: state.time = currentTime.toISOString()
AdvanceTimeEnd ==
    /\ pc = "loop"
    /\ ~(currentTime < endDate)
    /\ time' = currentTime
    /\ pc' = "idle"
    /\ call' = NoAdvance
    /\ UNCHANGED <<day, stocks, investors, activeEvent, eventHistory,
                   marketIndexHistory, nextMacroEventDay,
                   trackedCorporateActions, trackedNewsEvents,
                   trackedGeneratedArticles, currentTime, endDate,
                   nextDayBoundary, eodVars, trainLog, recorded, nextId,
                   phaseLog, bought, sold, lastCall, lastSplit, lastFeatures,
                   used>>
    /\ UNCHANGED eqVars


(******************* runEndOfDayLogic: learning phase ***********************)
\* the steps with the trading pass run ahead of the price update pass
TradesBeforePrices(p) ==
    CASE p = "settle" -> "macro"
      [] p = "macro" -> "corporate"
      [] p = "corporate" -> "trade"
      [] p = "trade" -> "price"
      [] p = "price" -> "close"
      [] p = "close" -> "return"

\* the steps of runEndOfDayLogic in the order its body runs them
NextPhase(p) ==
    CASE p = "settle" -> "macro"
      [] p = "macro" -> "corporate"
      [] p = "corporate" -> "price"
      [] p = "price" -> "trade"
      [] p = "trade" -> "close"
      [] p = "close" -> "return"

\* current / reference - 1, in ten-thousandths
Ret(cur, ref) == RDiv(cur * 10000, ref) - 10000

TrainCall(ledger, id, nextDay, net, ret, slot, trace) ==
    [ledger |-> ledger, id |-> id, day |-> nextDay, net |-> net, ret |-> ret,
     slot |-> slot, trace |-> trace]

\* the entries kept: nextDay < evaluationDay
CorporateKeep(actions, nextDay) ==
    SelectSeq(actions, LAMBDA a : nextDay < a.evaluationDay)

\* the backpropagate calls of evaluateCorporateActionsAndLearn, in order;
\* an entry whose company is delisted is dropped without a call
RECURSIVE CorporateCalls(_, _, _, _)
CorporateCalls(actions, st, mih, nextDay) ==
    IF actions = <<>> THEN <<>>
    ELSE LET a == Head(actions)
             stock == st[a.stockSymbol]
             currentMarketIndex == Last(mih).price
             stockReturn == RDiv(Last(stock.history).close * 10000, a.startingStockPrice)
             marketReturn == RDiv(currentMarketIndex * 10000, a.startingMarketIndex)
             outcome == IF marketReturn > 0
                        THEN RDiv(stockReturn * 10000, marketReturn) - 10000
                        ELSE stockReturn - 10000
             here == IF nextDay < a.evaluationDay \/ stock.isDelisted THEN <<>>
                     ELSE <<TrainCall("corporate", a.id, nextDay,
                                      a.stockSymbol, outcome, a.actionType, "none")>>
         IN here \o CorporateCalls(Tail(actions), st, mih, nextDay)

NewsKeep(events, nextDay) ==
    SelectSeq(events, LAMBDA e : nextDay < e.evaluationDay)

\* the backpropagate calls of evaluateNewsAndLearn: the target array is 0
\* everywhere but at chosenCategoryIndex
RECURSIVE NewsCalls(_, _, _)
NewsCalls(events, mih, nextDay) ==
    IF events = <<>> THEN <<>>
    ELSE LET e == Head(events)
             marketReturn == Ret(Last(mih).price, e.startingMarketIndex)
             here == IF nextDay < e.evaluationDay THEN <<>>
                     ELSE <<TrainCall("news", e.id, nextDay, "newsPickerAI",
                                      marketReturn, e.chosenCategoryIndex, "none")>>
         IN here \o NewsCalls(Tail(events), mih, nextDay)

ArticlesKeep(articles, nextDay) ==
    SelectSeq(articles, LAMBDA a : nextDay < a.evaluationDay)

\* the newsGeneratorAI.learn calls of evaluateArticlesAndLearn
RECURSIVE ArticleCalls(_, _, _)
ArticleCalls(articles, mih, nextDay) ==
    IF articles = <<>> THEN <<>>
    ELSE LET a == Head(articles)
             marketReturn == Ret(Last(mih).price, a.startingMarketIndex)
             here == IF nextDay < a.evaluationDay THEN <<>>
                     ELSE <<TrainCall("article", a.id, nextDay, "newsGeneratorAI",
                                      marketReturn, "none", a.generatedTokens)>>
         IN here \o ArticleCalls(Tail(articles), mih, nextDay)

\* the day evaluateTradesAndLearn compares against: the day of the last
\* history point of the first company of the list
TradeClock(st) == Last(st[STOCK_SYMBOLS[1]].history).day

TradesKeep(trades, st) ==
    SelectSeq(trades, LAMBDA t : t.outcomeEvaluationDay > TradeClock(st))

\* the backpropagate calls of evaluateTradesAndLearn for one investor
RECURSIVE TradeCalls(_, _, _, _)
TradeCalls(trades, st, inv, nextDay) ==
    IF trades = <<>> THEN <<>>
    ELSE LET t == Head(trades)
             actualReturn == Ret(Last(st[t.symbol].history).close, t.price)
             effectiveReturn == IF t.type = "buy" THEN actualReturn
                                ELSE -actualReturn
             here == IF t.outcomeEvaluationDay <= TradeClock(st)
                     THEN <<TrainCall("trade", t.id, nextDay, inv,
                                      effectiveReturn, "none", "none")>>
                     ELSE <<>>
         IN here \o TradeCalls(Tail(trades), st, inv, nextDay)

\* state.investors.forEach(investor => if (!investor.isHuman) evaluate...)
RECURSIVE AllTradeCalls(_, _, _, _)
AllTradeCalls(k, invs, st, nextDay) ==
    IF k > Len(InvestorIds) THEN <<>>
    ELSE LET i == InvestorIds[k]
         IN (IF ~IsHuman(i) /\ HasNetwork(i)
             THEN TradeCalls(invs[i].recentTrades, st, i, nextDay)
             ELSE <<>>) \o AllTradeCalls(k + 1, invs, st, nextDay)

\* lines 568-579: the activeEvent reset and the four settlements
Settle ==
    /\ pc = "settle"
    /\ LET nextDay == day + 1
       IN /\ activeEvent' =
                IF activeEvent # NoEvent
                   /\ (activeEvent.stockSymbol = "null" \/ activeEvent.type = "neutral")
                THEN NoEvent ELSE activeEvent
          /\ trackedCorporateActions' = CorporateKeep(trackedCorporateActions, nextDay)
          /\ trackedNewsEvents' = NewsKeep(trackedNewsEvents, nextDay)
          /\ trackedGeneratedArticles' = ArticlesKeep(trackedGeneratedArticles, nextDay)
          /\ investors' = [i \in Invs |->
                IF ~IsHuman(i) /\ HasNetwork(i)
                THEN [investors[i] EXCEPT !.recentTrades = TradesKeep(@, stocks)]
                ELSE investors[i]]
          /\ trainLog' = trainLog
                \o CorporateCalls(trackedCorporateActions, stocks, marketIndexHistory, nextDay)
                \o NewsCalls(trackedNewsEvents, marketIndexHistory, nextDay)
                \o ArticleCalls(trackedGeneratedArticles, marketIndexHistory, nextDay)
                \o AllTradeCalls(1, investors, stocks, nextDay)
    /\ phaseLog' = Append(phaseLog, "settle")
    /\ pc' = NextPhase("settle")
    /\ UNCHANGED <<day, time, stocks, eventHistory, marketIndexHistory,
                   nextMacroEventDay, currentTime, endDate, nextDayBoundary,
                   eodVars, recorded, nextId, bought, sold, call, lastCall,
                   lastSplit, lastFeatures, used>>
    /\ UNCHANGED eqVars


(************************** indicators *************************************)
Closes(h) == [i \in 1..Len(h) |-> h[i].close]

\* momentum_50d: prices[last] / prices[last - 50] - 1, when length > 50
Momentum50(h) ==
    IF Len(h) > 50 THEN Ret(h[Len(h)].close, h[Len(h) - 50].close) ELSE 0

\* a / b as the language computes it, b >= 0, in thousandths: 0 / 0 is
\* NaN and a / 0 is an infinity
Quotient(a, b) ==
    IF b = 0 THEN [kind |-> IF a = 0 THEN "NaN" ELSE "Infinity", v |-> 0]
    ELSE [kind |-> "number", v |-> SDiv(a * 1000, b)]

\* volume_avg_20d_spike: (volumes[last] - avgVol) / avgVol over the last 20
\* points (lines 221-225); the key is omitted below 20 points
VolumeSpike(h) ==
    IF Len(h) >= 20
    THEN LET sum == SumSeq([k \in 1..20 |-> h[Len(h) - 20 + k].volume])
         IN Quotient(20 * h[Len(h)].volume - sum, sum)
    ELSE [kind |-> "omitted", v |-> 0]

\* volatility_atr_14: mean |price[i] - price[i-1]| over the last 14 points,
\* divided by the current price
Atr14(h) ==
    IF Len(h) > 14 /\ h[Len(h)].close > 0
    THEN LET trs == [k \in 1..14 |->
                       Abs(h[Len(h) - 14 + k].close - h[Len(h) - 15 + k].close)]
         IN RDiv(SumSeq(trs) * 10000, 14 * h[Len(h)].close)
    ELSE 0

\* calcGroupMomentum over a group given in list order
CalcGroupMomentum(group, st) ==
    IF Len(group) > 0 /\ Len(st[group[1]].history) > 50
    THEN LET cur == SumSeq([k \in 1..Len(group) |->
                        Last(st[group[k]].history).close])
             past == SumSeq([k \in 1..Len(group) |->
                        LET h == st[group[k]].history
                        IN h[Max(1, Len(h) - 50)].close])
         IN IF past > 0 THEN Ret(cur, past) ELSE 0
    ELSE 0

\* allStocks.filter(s => s.sector === stock.sector)
SectorGroup(s) == SelectSeq(STOCK_SYMBOLS, LAMBDA x : Sector(x) = Sector(s))
\* allStocks.filter(s => s.region === stock.region)
RegionGroup(s) == SelectSeq(STOCK_SYMBOLS, LAMBDA x : RegionOf(x) = RegionOf(s))

\* calculateIndicators: the features carried here are momentum_50d,
\* volume_avg_20d_spike, volatility_atr_14, sector_momentum_50d and
\* region_momentum_50d
CalculateIndicators(s, st) ==
    [momentum_50d |-> Momentum50(st[s].history),
     volume_avg_20d_spike |-> VolumeSpike(st[s].history),
     volatility_atr_14 |-> Atr14(st[s].history),
     sector_momentum_50d |-> CalcGroupMomentum(SectorGroup(s), st),
     region_momentum_50d |-> CalcGroupMomentum(RegionGroup(s), st)]

\* INDICATOR_NEURONS.map(name => indicators[name] || 0)
IndicatorValues(s, st) ==
    LET ind == CalculateIndicators(s, st)
    IN <<ind.momentum_50d, ind.volatility_atr_14, ind.sector_momentum_50d,
         ind.region_momentum_50d>>

\* calculateMarketIndicators: market momentum, mean ATR and mean P/E of
\* the non-delisted companies
CalculateMarketIndicators(st, mih) ==
    LET act == SelectSeq(STOCK_SYMBOLS, LAMBDA x : ~st[x].isDelisted)
        atrs == [k \in 1..Len(act) |-> Atr14(st[act[k]].history)]
        atrCount == Cardinality({k \in 1..Len(act) : atrs[k] # 0})
        pes == [k \in 1..Len(act) |->
                  IF st[act[k]].eps > 0
                  THEN RDiv(Last(st[act[k]].history).close * 100, st[act[k]].eps)
                  ELSE 0]
        peCount == Cardinality({k \in 1..Len(act) : st[act[k]].eps > 0})
    IN [market_momentum_50d |->
            IF Len(mih) > 50 THEN Ret(mih[Len(mih)].price, mih[Len(mih) - 50].price)
            ELSE 0,
        market_volatility_atr_20d |->
            IF atrCount > 0 THEN RDiv(SumSeq(atrs), atrCount) ELSE 0,
        market_avg_pe_ratio |->
            IF peCount > 0 THEN RDiv(SumSeq(pes), peCount) ELSE 0]

(************************* events and articles *****************************)
\* NEWS_EVENT_CATEGORIES, indexed from 0
NEWS_EVENT_CATEGORIES ==
    <<"PositiveNA", "NegativeNA", "PositiveEU", "NegativeEU", "PositiveAsia",
      "NegativeAsia", "PositiveGlobal", "NegativeGlobal", "PoliticalGlobal",
      "DisasterGlobal">>

\* Math.tanh of x hundredths, in thousandths: the (27 + x^2) x / (27 + 9 x^2)
\* approximant, saturated beyond |x| = 3
Tanh(xh) ==
    IF xh >= 300 THEN 1000
    ELSE IF xh <= -300 THEN -1000
    ELSE SDiv(10 * xh * (270000 + xh * xh), 270000 + 9 * xh * xh)

\* targetArray of evaluateNewsAndLearn, indexed from 0: fill(0), then
\* targetArray[event.chosenCategoryIndex] = tanh(marketReturn * 20)
NewsTargetArray(e, mih) ==
    LET marketReturn == Ret(Last(mih).price, e.startingMarketIndex)
        targetScore == Tanh(SDiv(marketReturn * 20, 100))
    IN [k \in 0..(Len(NEWS_EVENT_CATEGORIES) - 1) |->
            IF k = e.chosenCategoryIndex THEN targetScore ELSE 0]

\* output vectors feedForward can return, in thousandths: the network is
\* silent, or one slot is away from 0
OutputSamples ==
    {[k \in 0..(Len(NEWS_EVENT_CATEGORIES) - 1) |-> IF k = j THEN v ELSE 0] :
        j \in 0..(Len(NEWS_EVENT_CATEGORIES) - 1), v \in {-500, 0, 500}}

\* the error signal backpropagate starts from at the output layer
OutputError(targets, outputs) ==
    [k \in DOMAIN targets |-> targets[k] - outputs[k]]

\* the entries of MACRO_EVENTS the model draws from
MACRO_EVENTS ==
    <<[name |-> "Positive Jobs Report", type |-> "positive", kind |-> "map",
       f |-> 1000,
       m |-> {<<"North America", 1010>>, <<"Europe", 1002>>, <<"Asia", 1002>>},
       region |-> "North America", category |-> "PositiveNA"],
      [name |-> "Geopolitical Tensions Flare", type |-> "political",
       kind |-> "scalar", f |-> 990, m |-> {},
       region |-> "Global", category |-> "PoliticalGlobal"],
      [name |-> "New Tech Sector Regulations", type |-> "political",
       kind |-> "map", f |-> 1000, m |-> {<<"Technology", 950>>},
       region |-> "Global", category |-> "PoliticalGlobal"],
      [name |-> "Unexpected Political Scandal", type |-> "political",
       kind |-> "map", f |-> 1000, m |-> {<<"Asia", 980>>},
       region |-> "Asia", category |-> "NegativeAsia"]>>

\* the category indices the news picker may score highest in the model
CategoryDraws == {0, 5, 7, 8}
\* Math.floor(Math.random() * 20) for the next macro event day
MacroGapDraws == {0, 19}
\* the category index, gap and pool position taken when nothing departs
\* from the default
DefaultMacroDraw == <<8, 0, 1>>

\* eventHistory.unshift(newEvent), dropping the oldest beyond 100
UnshiftEvent(eh, ev) ==
    LET all == <<ev>> \o eh
    IN IF Len(all) > 100 THEN SubSeq(all, 1, Len(all) - 1) ELSE all

\* generateNewsArticle: the article and the learnable trace of generation
\* id, as MicroLLM.generate returns them
GenerateNewsArticle(id) ==
    [article |-> <<"article", id>>, learningTokens |-> <<"tokens", id>>]

\* reading a property of an object: undefined when the object has none of
\* that name
Property(obj, name) ==
    IF name \in DOMAIN obj THEN obj[name] ELSE Undefined

\* the entry addEventToHistory pushes on trackedGeneratedArticles;
\* generateNewsArticle returns {article, learningTokens}, the caller
\* destructures { article, tokens }
TrackedArticle(id, nextDay, mih) ==
    [id |-> id, startDay |-> nextDay, evaluationDay |-> nextDay + ArticleHorizon,
     startingMarketIndex |-> Last(mih).price,
     generatedTokens |-> Property(GenerateNewsArticle(id), "tokens")]

(*********************** runEndOfDayLogic: macro event *********************)
MacroEvent ==
    /\ pc = "macro"
    /\ LET nextDay == day + 1
       IN IF nextDay >= nextMacroEventDay
          THEN \E bestCategoryIndex \in CategoryDraws, gap \in MacroGapDraws :
                LET chosenCategory == NEWS_EVENT_CATEGORIES[bestCategoryIndex + 1]
                    possibleEvents == SelectSeq(MACRO_EVENTS,
                                        LAMBDA e : e.category = chosenCategory)
                    pool == IF Len(possibleEvents) > 0 THEN possibleEvents
                            ELSE MACRO_EVENTS
                    mi == CalculateMarketIndicators(stocks, marketIndexHistory)
                    indicatorValues == <<mi.market_momentum_50d,
                                         mi.market_volatility_atr_20d,
                                         mi.market_avg_pe_ratio>>
                IN \E k \in 1..Len(pool) :
                    LET cfg == pool[k]
                        cost == IF <<bestCategoryIndex, gap, k>> = DefaultMacroDraw
                                THEN 0 ELSE 1
                        ev == [id |-> nextId, day |-> nextDay,
                               stockSymbol |-> "null", type |-> cfg.type,
                               kind |-> cfg.kind, f |-> cfg.f, m |-> cfg.m,
                               region |-> cfg.region]
                    IN /\ CanSpend(cost)
                       /\ used' = [used EXCEPT !.events = @ + cost]
                       /\ eventHistory' = UnshiftEvent(eventHistory, ev)
                       /\ trackedGeneratedArticles' =
                             Append(trackedGeneratedArticles,
                                    TrackedArticle(nextId + 1, nextDay, marketIndexHistory))
                       /\ activeEvent' = ev
                       /\ trackedNewsEvents' = Append(trackedNewsEvents,
                             [id |-> nextId + 2, startDay |-> nextDay,
                              evaluationDay |-> nextDay + NewsHorizon,
                              inputIndicators |-> indicatorValues,
                              chosenCategoryIndex |-> bestCategoryIndex,
                              startingMarketIndex |-> Last(marketIndexHistory).price])
                       /\ nextMacroEventDay' = nextDay + 15 + gap
                       /\ recorded' = recorded \cup
                             {Rec("article", nextId + 1, nextDay, nextDay + ArticleHorizon),
                              Rec("news", nextId + 2, nextDay, nextDay + NewsHorizon)}
                       /\ nextId' = nextId + 3
          ELSE UNCHANGED <<eventHistory, trackedGeneratedArticles, activeEvent,
                           trackedNewsEvents, nextMacroEventDay, recorded, nextId,
                           used>>
    /\ phaseLog' = Append(phaseLog, "macro")
    /\ pc' = NextPhase("macro")
    /\ ci' = 1
    /\ dailyImpacts' = [s \in Syms |-> 1000]
    /\ UNCHANGED <<day, time, stocks, investors, marketIndexHistory,
                   trackedCorporateActions, currentTime, endDate,
                   nextDayBoundary, dailyTradeVolumes, trainLog, bought, sold,
                   call, lastCall, lastSplit, lastFeatures>>
    /\ UNCHANGED eqVars


(******************* runEndOfDayLogic: corporate step **********************)
\* the outputs a corporate network may give, in tenths
ScoreDraws == {0, 30}
\* Math.floor(Math.random() * CORPORATE_ACTION_INTERVAL_RANGE)
CooldownDraws == {0, CORPORATE_ACTION_INTERVAL_RANGE - 1}

\* CORPORATE_EVENTS_BY_SECTOR, the entries the model draws from
CORPORATE_EVENTS_BY_SECTOR(sector) ==
    IF sector = "Technology"
    THEN <<[name |-> "New Patent Approved", type |-> "positive", kind |-> "scalar", f |-> 1050],
           [name |-> "Major Data Breach", type |-> "negative", kind |-> "scalar", f |-> 920],
           [name |-> "Routine Software Update", type |-> "neutral", kind |-> "none", f |-> 1000]>>
    ELSE <<[name |-> "Positive Earnings Surprise", type |-> "positive", kind |-> "scalar", f |-> 1070],
           [name |-> "SEC Investigation", type |-> "negative", kind |-> "scalar", f |-> 910],
           [name |-> "New Branch Opening", type |-> "neutral", kind |-> "none", f |-> 1000]>>

\* Math.abs(impact - 1) > 0.05 on doubles: 1.05 - 1 and 1 - 0.95 both
\* evaluate to 0.050000000000000044, which is > 0.05
ExceedsFivePercent(f) == Abs(f - 1000) >= 50

\* Math.floor(currentPrice / 100) || 2
SplitRatio(currentPrice) ==
    IF currentPrice \div 10000 = 0 THEN 2 ELSE currentPrice \div 10000

\* stock.history.forEach(h => { h.open /= ratio; ... })
SplitHistory(h, ratio) ==
    [i \in 1..Len(h) |-> [h[i] EXCEPT !.open = RDiv(@, ratio),
                                      !.high = RDiv(@, ratio),
                                      !.low = RDiv(@, ratio),
                                      !.close = RDiv(@, ratio)]]

\* a split that rescales the prices and eps but not the share count
SplitPricesOnly(stock, ratio) ==
    [stock EXCEPT !.history = SplitHistory(@, ratio),
                  !.eps = RDiv(@, ratio)]

\* lines 635-637
ApplySplit(stock, ratio) ==
    [stock EXCEPT !.sharesOutstanding = @ * ratio,
                  !.history = SplitHistory(@, ratio),
                  !.eps = RDiv(@, ratio)]

MarketCap(stock) == Last(stock.history).close * stock.sharesOutstanding

\* the alliance partners: same region and sector first, the whole sector
\* when there is none or on the 10% draw
Partners(s, st, outside) ==
    LET regional == SelectSeq(STOCK_SYMBOLS, LAMBDA x :
                        RegionOf(x) = RegionOf(s) /\ Sector(x) = Sector(s)
                        /\ x # s /\ ~st[x].isDelisted)
    IN IF Len(regional) = 0 \/ outside
       THEN SelectSeq(STOCK_SYMBOLS, LAMBDA x :
                Sector(x) = Sector(s) /\ x # s /\ ~st[x].isDelisted)
       ELSE regional

\* targets taken from any sector
TargetsOfAnySector(s, st, outside) ==
    LET small(x) == 2 * MarketCap(st[x]) < MarketCap(st[s])
    IN SelectSeq(STOCK_SYMBOLS, LAMBDA x :
            x # s /\ ~st[x].isDelisted /\ small(x))

\* the acquisition targets: as the partners, with less than half the
\* acquirer's market capitalisation
Targets(s, st, outside) ==
    LET small(x) == 2 * MarketCap(st[x]) < MarketCap(st[s])
        regional == SelectSeq(STOCK_SYMBOLS, LAMBDA x :
                        RegionOf(x) = RegionOf(s) /\ Sector(x) = Sector(s)
                        /\ x # s /\ ~st[x].isDelisted /\ small(x))
    IN IF Len(regional) = 0 \/ outside
       THEN SelectSeq(STOCK_SYMBOLS, LAMBDA x :
                Sector(x) = Sector(s) /\ x # s /\ ~st[x].isDelisted /\ small(x))
       ELSE regional

\* the decision with the alliance network consulted ahead of the split
\* network
AllianceBeforeSplit(s, st, nextDay, d) ==
    LET stock == st[s]
        currentPrice == Last(stock.history).close
    IN IF nextDay >= stock.nextCorporateActionDay
       THEN IF d.allianceScore > 20 /\ Len(Partners(s, st, d.outside)) > 0
            THEN "alliance"
            ELSE IF d.splitScore > 15 /\ currentPrice > MIN_STOCK_SPLIT_PRICE
                 THEN "split"
                 ELSE IF d.acquisitionScore > 25
                         /\ Len(Targets(s, st, d.outside)) > 0
                      THEN "acquisition"
                      ELSE "none"
       ELSE "none"

\* what the body of the forEach decides for company s under the draws d
CorporateDecision(s, st, nextDay, d) ==
    LET stock == st[s]
        currentPrice == Last(stock.history).close
    IN IF nextDay >= stock.nextCorporateActionDay
       THEN IF d.splitScore > 15 /\ currentPrice > MIN_STOCK_SPLIT_PRICE
            THEN "split"
            ELSE IF d.allianceScore > 20
                 THEN IF Len(Partners(s, st, d.outside)) > 0 THEN "alliance"
                      ELSE "none"
                 ELSE IF d.acquisitionScore > 25
                         /\ Len(Targets(s, st, d.outside)) > 0
                      THEN "acquisition"
                      ELSE "none"
       ELSE "none"

\* a cooldown that ends on the day of the action
NoCooldown(nextDay, cool) == nextDay

\* nextDay + MIN_CORPORATE_ACTION_INTERVAL
\*         + Math.floor(Math.random() * CORPORATE_ACTION_INTERVAL_RANGE)
Cooldown(nextDay, cool) == nextDay + MIN_CORPORATE_ACTION_INTERVAL + cool

CorporateEvent(id, nextDay, s, type, kind, f) ==
    [id |-> id, day |-> nextDay, stockSymbol |-> s, type |-> type,
     kind |-> kind, f |-> f, m |-> {}, region |-> "none"]

TrackedAction(id, nextDay, horizon, s, actionType, st, mih) ==
    [id |-> id, startDay |-> nextDay, evaluationDay |-> nextDay + horizon,
     stockSymbol |-> s, actionType |-> actionType,
     indicatorValuesAtAction |-> IndicatorValues(s, st),
     startingStockPrice |-> Last(st[s].history).close,
     startingMarketIndex |-> Last(mih).price]

\* one iteration of state.stocks.forEach (lines 619-694)
CorporateStep ==
    /\ pc = "corporate"
    /\ ci <= Len(STOCK_SYMBOLS)
    /\ LET s == STOCK_SYMBOLS[ci]
           stock == stocks[s]
           nextDay == day + 1
           due == nextDay >= stock.nextCorporateActionDay
           events == CORPORATE_EVENTS_BY_SECTOR(Sector(s))
       IN IF stock.isDelisted
          THEN /\ lastSplit' = [lastSplit EXCEPT !.symbol = "none",
                                                 !.decided = NoDecision]
               /\ UNCHANGED <<stocks, dailyImpacts, activeEvent, eventHistory,
                              trackedGeneratedArticles, trackedCorporateActions,
                              recorded, nextId, used>>
          ELSE \E splitScore \in ScoreDraws, allianceScore \in ScoreDraws,
                  acquisitionScore \in ScoreDraws, outside \in BOOLEAN,
                  pick \in 1..2, cool \in CooldownDraws,
                  evt \in 0..Len(events) :
            LET d == [splitScore |-> splitScore, allianceScore |-> allianceScore,
                      acquisitionScore |-> acquisitionScore, outside |-> outside]
                decision == CorporateDecision(s, stocks, nextDay, d)
                actionTaken == decision # "none"
                partners == Partners(s, stocks, outside)
                targets == Targets(s, stocks, outside)
                other == IF decision = "alliance" THEN partners[pick]
                         ELSE IF decision = "acquisition" THEN targets[pick]
                         ELSE s
                ratio == SplitRatio(Last(stock.history).close)
                scores == [company |-> s, scored |-> due,
                           splitScore |-> splitScore,
                           allianceScore |-> allianceScore,
                           acquisitionScore |-> acquisitionScore]
                cooled == Cooldown(nextDay, cool)
                ev == IF actionTaken
                      THEN CorporateEvent(nextId, nextDay, s,
                              IF decision = "acquisition" THEN "merger" ELSE decision,
                              "none", 1000)
                      ELSE CorporateEvent(nextId, nextDay, s, events[evt].type,
                              events[evt].kind, events[evt].f)
            IN \* draws that are not read are fixed, and the draws stay in budget
               /\ ~due => splitScore = 0 /\ allianceScore = 0 /\ acquisitionScore = 0
               /\ ~CanSpend(1) =>
                     splitScore = 0 /\ allianceScore = 0 /\ acquisitionScore = 0
               /\ decision \notin {"alliance", "acquisition"} => pick = 1 /\ ~outside
               /\ decision = "alliance" => pick <= Len(partners)
               /\ decision = "acquisition" => pick <= Len(targets)
               /\ ~actionTaken => cool = 0
               /\ actionTaken => evt = 0
               /\ ~CanSpend(1) => evt = 0
               /\ stocks' =
                    IF decision = "split"
                    THEN [stocks EXCEPT ![s] =
                            [ApplySplit(stock, ratio) EXCEPT !.nextCorporateActionDay = cooled]]
                    ELSE IF decision = "alliance"
                    THEN [stocks EXCEPT ![s].nextCorporateActionDay = cooled]
                    ELSE IF decision = "acquisition"
                    THEN [stocks EXCEPT ![s].nextCorporateActionDay = cooled,
                                        ![other].isDelisted = TRUE]
                    ELSE stocks
               /\ dailyImpacts' =
                    IF decision = "alliance"
                    THEN [dailyImpacts EXCEPT ![s] = MulF(@, 1030),
                                              ![other] = MulF(@, 1030)]
                    ELSE IF decision = "acquisition"
                    THEN [dailyImpacts EXCEPT ![s] = MulF(@, 1050),
                                              ![other] = MulF(@, 1150)]
                    ELSE IF evt > 0 /\ events[evt].kind = "scalar"
                    THEN [dailyImpacts EXCEPT ![s] = MulF(@, events[evt].f)]
                    ELSE dailyImpacts
               /\ activeEvent' =
                    IF decision = "acquisition" /\ ExceedsFivePercent(1050) THEN ev
                    ELSE IF decision = "alliance" /\ ExceedsFivePercent(1030) THEN ev
                    ELSE IF decision = "split" /\ ExceedsFivePercent(1000) THEN ev
                    ELSE IF ~actionTaken /\ evt > 0 /\ events[evt].kind = "scalar"
                            /\ ExceedsFivePercent(events[evt].f) THEN ev
                    ELSE activeEvent
               /\ IF actionTaken \/ evt > 0
                  THEN /\ eventHistory' = UnshiftEvent(eventHistory, ev)
                       /\ trackedGeneratedArticles' =
                             Append(trackedGeneratedArticles,
                                    TrackedArticle(nextId + 1, nextDay, marketIndexHistory))
                  ELSE UNCHANGED <<eventHistory, trackedGeneratedArticles>>
               /\ trackedCorporateActions' =
                    IF actionTaken
                    THEN Append(trackedCorporateActions,
                            TrackedAction(nextId + 2, nextDay,
                               IF decision = "split" THEN SplitHorizon
                               ELSE IF decision = "alliance" THEN AllianceHorizon
                               ELSE AcquisitionHorizon,
                               s, decision, stocks, marketIndexHistory))
                    ELSE trackedCorporateActions
               /\ recorded' = recorded
                    \cup (IF actionTaken \/ evt > 0
                          THEN {Rec("article", nextId + 1, nextDay, nextDay + ArticleHorizon)}
                          ELSE {})
                    \cup (IF actionTaken
                          THEN {Rec("corporate", nextId + 2, nextDay,
                                    nextDay + (IF decision = "split" THEN SplitHorizon
                                               ELSE IF decision = "alliance" THEN AllianceHorizon
                                               ELSE AcquisitionHorizon))}
                          ELSE {})
               /\ nextId' = IF actionTaken \/ evt > 0 THEN nextId + 3 ELSE nextId
               /\ lastSplit' =
                    IF decision = "split"
                    THEN [symbol |-> s, ratio |-> ratio,
                          close |-> Last(stock.history).close,
                          sharesOutstanding |-> stock.sharesOutstanding,
                          eps |-> stock.eps, decided |-> scores]
                    ELSE [lastSplit EXCEPT !.symbol = "none",
                                           !.decided = scores]
               /\ used' = [used EXCEPT
                              !.corp = IF splitScore # 0 \/ allianceScore # 0
                                          \/ acquisitionScore # 0
                                       THEN @ + 1 ELSE @,
                              !.events = IF evt > 0 THEN @ + 1 ELSE @]
    /\ ci' = ci + 1
    /\ pc' = IF ci = Len(STOCK_SYMBOLS) THEN NextPhase("corporate") ELSE "corporate"
    /\ phaseLog' = IF ci = Len(STOCK_SYMBOLS) THEN Append(phaseLog, "corporate")
                   ELSE phaseLog
    /\ UNCHANGED <<day, time, investors, marketIndexHistory, nextMacroEventDay,
                   trackedNewsEvents, currentTime, endDate, nextDayBoundary,
                   dailyTradeVolumes, trainLog, bought, sold, call,
                   lastCall, lastFeatures>>
    /\ UNCHANGED eqVars


(******************* runEndOfDayLogic: price update pass *******************)
INFLATION_RATE_PER_YEAR == 2000
\* WASHINGTON_B_AND_O_TAX_RATES_BY_SECTOR[sector] || 0, per year, in
\* hundred-thousandths
WASHINGTON_B_AND_O_TAX_RATES_BY_SECTOR(sector) ==
    IF sector = "Technology" THEN 471
    ELSE IF sector = "Finance" THEN 1500 ELSE 0

\* currentPrice *= (1 - boDrag + INFLATION_RATE), both rates per day
ApplyDrag(price, sector) ==
    price + SDiv(price * (INFLATION_RATE_PER_YEAR
                            - WASHINGTON_B_AND_O_TAX_RATES_BY_SECTOR(sector)),
                 100000 * 365)

HasKey(m, k) == \E p \in m : p[1] = k
Lookup(m, k) == (CHOOSE p \in m : p[1] = k)[2]

\* the factor the active event contributes to the price of company s
ActiveEventFactor(ev, s) ==
    IF ev = NoEvent THEN 1000
    ELSE IF ev.kind = "scalar" THEN ev.f
    ELSE IF ev.kind = "map"
         THEN IF HasKey(ev.m, RegionOf(s)) THEN Lookup(ev.m, RegionOf(s))
              ELSE IF ev.region # "none" /\ ev.region # "Global"
                      /\ HasKey(ev.m, ev.region)
                   THEN 1000 + SDiv((Lookup(ev.m, ev.region) - 1000) * 25, 100)
                   ELSE 1000
    ELSE 1000

\* lines 703-729 for one company
NewClose(stock, s, ev, impact) ==
    Max(1, MulF(MulF(ApplyDrag(Last(stock.history).close, Sector(s)),
                     ActiveEventFactor(ev, s)),
                impact))

\* a price pass that skips no company
SkipsNone(stock) == FALSE

\* if (stock.isDelisted) return, at the head of the pass
SkipsPriceUpdate(stock) == stock.isDelisted

PriceUpdate ==
    /\ pc = "price"
    /\ stocks' = [s \in Syms |->
          IF SkipsPriceUpdate(stocks[s]) THEN stocks[s]
          ELSE [stocks[s] EXCEPT !.history[Len(stocks[s].history)].close =
                    NewClose(stocks[s], s, activeEvent, dailyImpacts[s])]]
    /\ dailyTradeVolumes' = [s \in Syms |-> 0]
    /\ lastSplit' = [lastSplit EXCEPT !.symbol = "none", !.decided = NoDecision]
    /\ phaseLog' = Append(phaseLog, "price")
    /\ pc' = NextPhase("price")
    /\ UNCHANGED <<day, time, investors, activeEvent, eventHistory,
                   marketIndexHistory, nextMacroEventDay,
                   trackedCorporateActions, trackedNewsEvents,
                   trackedGeneratedArticles, currentTime, endDate,
                   nextDayBoundary, dailyImpacts, ci, trainLog, recorded,
                   nextId, bought, sold, call, lastCall, lastFeatures, used>>
    /\ UNCHANGED eqVars


(******************* runEndOfDayLogic: investor actions ********************)
\* the outputs feedForward(indicatorValues)[0] may take, in tenths
TradeScores == {-10, 0, 5, 10}
\* strategy.riskAversion, in tenths (0.3 + Math.random() * 0.5)
RiskAversion(i) == 5
LONG_TERM_HOLDING_PERIOD == 365

\* investor.portfolio.find(p => p.symbol === symbol): its index, 0 if none
FindItem(pf, s) ==
    IF \E k \in 1..Len(pf) : pf[k].symbol = s
    THEN CHOOSE k \in 1..Len(pf) : pf[k].symbol = s /\ \A j \in 1..(k - 1) : pf[j].symbol # s
    ELSE 0

LotsOf(pf, s) == IF FindItem(pf, s) = 0 THEN <<>> ELSE pf[FindItem(pf, s)].lots

\* getSharesOwned
GetSharesOwned(pf, s) ==
    LET lots == LotsOf(pf, s)
    IN SumSeq([k \in 1..Len(lots) |-> lots[k].shares])

\* item.lots.push(lot), after investor.portfolio.push(item) when new
AddLot(pf, s, lot) ==
    IF FindItem(pf, s) = 0 THEN Append(pf, [symbol |-> s, lots |-> <<lot>>])
    ELSE [pf EXCEPT ![FindItem(pf, s)].lots = Append(@, lot)]

\* lots.sort((a, b) => time(a.purchaseTime) - time(b.purchaseTime)): stable
RECURSIVE InsertLot(_, _)
InsertLot(sorted, lot) ==
    IF sorted = <<>> THEN <<lot>>
    ELSE IF lot.purchaseTime < Head(sorted).purchaseTime
         THEN <<lot>> \o sorted
         ELSE <<Head(sorted)>> \o InsertLot(Tail(sorted), lot)

RECURSIVE SortLots(_)
SortLots(lots) ==
    IF lots = <<>> THEN <<>>
    ELSE InsertLot(SortLots(SubSeq(lots, 1, Len(lots) - 1)), lots[Len(lots)])

\* the filter over the sorted lots that consumes soldAmount shares
RECURSIVE ConsumeLots(_, _)
ConsumeLots(lots, soldAmount) ==
    IF lots = <<>> THEN <<>>
    ELSE IF soldAmount <= 0 THEN lots
    ELSE IF Head(lots).shares <= soldAmount
         THEN ConsumeLots(Tail(lots), soldAmount - Head(lots).shares)
         ELSE <<[Head(lots) EXCEPT !.shares = @ - soldAmount]>> \o Tail(lots)

RECURSIVE Reverse(_)
Reverse(seq) == IF seq = <<>> THEN <<>> ELSE Append(Reverse(Tail(seq)), Head(seq))

\* a sale that walks the lots newest first
NewestFirst(lots) == Reverse(SortLots(lots))

\* the order in which a sale walks the lots
SaleOrder(lots) == SortLots(lots)

\* the gain added to waAnnualNetLTCG while the lots are consumed
RECURSIVE LongTermGain(_, _, _, _)
LongTermGain(lots, soldAmount, price, now) ==
    IF lots = <<>> \/ soldAmount <= 0 THEN 0
    ELSE LET lot == Head(lots)
             gainOrLoss == (price - lot.purchasePrice) * Min(lot.shares, soldAmount)
             counted == IF now - lot.purchaseTime
                              > LONG_TERM_HOLDING_PERIOD * secondsInDay
                        THEN gainOrLoss ELSE 0
         IN counted + LongTermGain(Tail(lots), soldAmount - lot.shares, price, now)

\* lines 780-781: keep the item with its remaining lots, or drop the item
AfterSale(pf, s, remainingLots) ==
    IF remainingLots # <<>>
    THEN [pf EXCEPT ![FindItem(pf, s)].lots = remainingLots]
    ELSE SelectSeq(pf, LAMBDA it : it.symbol # s)

\* a trade entry due on the day it is recorded
TradeDueAtOnce(id, s, nextDay, type, shares, price, values) ==
    [id |-> id, symbol |-> s, day |-> nextDay, type |-> type, shares |-> shares,
     price |-> price, indicatorValuesAtTrade |-> values,
     outcomeEvaluationDay |-> nextDay]

Trade(id, s, nextDay, type, shares, price, values) ==
    [id |-> id, symbol |-> s, day |-> nextDay, type |-> type, shares |-> shares,
     price |-> price, indicatorValuesAtTrade |-> values,
     outcomeEvaluationDay |-> nextDay + TradeHorizon]

\* a purchase sized to the whole of the cash
SharesForAllCash(cash, currentPrice) == cash \div currentPrice

\* Math.floor(investor.cash * 0.2 / currentPrice)
SharesToBuy(cash, currentPrice) == (cash * 2) \div (10 * currentPrice)

\* lines 738-783 for one investor and one company; acc carries the state
\* the loop mutates
TradeOne(acc, i, s, sc, st, nextDay, now) ==
    IF IsHuman(i) \/ st[s].isDelisted \/ ~HasNetwork(i) THEN acc
    ELSE
    LET score == sc[i][s]
        indicators == CalculateIndicators(s, st)
        values == IndicatorValues(s, st)
        currentPrice == Last(st[s].history).close
        inv == acc.investors[i]
        sharesOwned == GetSharesOwned(inv.portfolio, s)
        sharesToBuy == SharesToBuy(inv.cash, currentPrice)
        sharesToSell == sharesOwned \div 2
        seen == [acc EXCEPT !.feats[s] =
                    [sector |-> indicators.sector_momentum_50d,
                     region |-> indicators.region_momentum_50d,
                     day |-> nextDay]]
    IN IF score > RiskAversion(i)
       THEN IF sharesToBuy > 0
            THEN [seen EXCEPT
                    !.investors[i] = [inv EXCEPT
                        !.cash = @ - sharesToBuy * currentPrice,
                        !.portfolio = AddLot(@, s,
                            [id |-> acc.nextId, purchaseTime |-> now,
                             purchasePrice |-> currentPrice,
                             shares |-> sharesToBuy]),
                        !.recentTrades = Append(@,
                            Trade(acc.nextId + 1, s, nextDay, "buy",
                                  sharesToBuy, currentPrice, values))],
                    !.vols[s] = @ + sharesToBuy,
                    !.nextId = @ + 2,
                    !.recorded = @ \cup {Rec("trade", acc.nextId + 1, nextDay,
                                             nextDay + TradeHorizon)},
                    !.bought[i][s] = @ + sharesToBuy]
            ELSE seen
       ELSE IF score < -RiskAversion(i) /\ sharesOwned > 0
       THEN IF sharesToSell > 0
            THEN LET sorted == SaleOrder(LotsOf(inv.portfolio, s))
                 IN [seen EXCEPT
                    !.investors[i] = [inv EXCEPT
                        !.cash = @ + sharesToSell * currentPrice,
                        !.waAnnualNetLTCG = @ + LongTermGain(sorted, sharesToSell,
                                                              currentPrice, now),
                        !.portfolio = AfterSale(@, s,
                                          ConsumeLots(sorted, sharesToSell)),
                        !.recentTrades = Append(@,
                            Trade(acc.nextId, s, nextDay, "sell",
                                  sharesToSell, currentPrice, values))],
                    !.vols[s] = @ + sharesToSell,
                    !.nextId = @ + 1,
                    !.recorded = @ \cup {Rec("trade", acc.nextId, nextDay,
                                             nextDay + TradeHorizon)},
                    !.sold[i][s] = @ + sharesToSell]
            ELSE seen
       ELSE seen

\* investors.forEach(investor => stocks.forEach(stock => ...)), pair k of
\* the nested loops
RECURSIVE TradeFold(_, _, _, _, _, _)
TradeFold(k, acc, sc, st, nextDay, now) ==
    IF k > Len(InvestorIds) * Len(STOCK_SYMBOLS) THEN acc
    ELSE LET i == InvestorIds[((k - 1) \div Len(STOCK_SYMBOLS)) + 1]
             s == STOCK_SYMBOLS[((k - 1) % Len(STOCK_SYMBOLS)) + 1]
         IN TradeFold(k + 1, TradeOne(acc, i, s, sc, st, nextDay, now),
                      sc, st, nextDay, now)

Traders == {i \in Invs : ~IsHuman(i) /\ HasNetwork(i)}

\* the scores the networks of the trading investors may put out in one
\* pass: none for a delisted company, as many non-zero ones as draws left
TradeDraws ==
    {sc \in [Traders -> [Syms -> TradeScores]] :
        /\ \A i \in Traders, s \in Syms : stocks[s].isDelisted => sc[i][s] = 0
        /\ CanSpend(Cardinality({p \in Traders \X Syms : sc[p[1]][p[2]] # 0}))}

\* the state the nested loops of the pass leave for the scores sc
TradeResult(sc) ==
    TradeFold(1, [investors |-> investors, vols |-> dailyTradeVolumes,
                  nextId |-> nextId, recorded |-> recorded,
                  bought |-> bought, sold |-> sold,
                  feats |-> lastFeatures],
              sc, stocks, day + 1, time)

TradingPass ==
    /\ pc = "trade"
    /\ \E sc \in TradeDraws :
        /\ LET acc == TradeResult(sc)
           IN /\ investors' = acc.investors
              /\ dailyTradeVolumes' = acc.vols
              /\ nextId' = acc.nextId
              /\ recorded' = acc.recorded
              /\ bought' = acc.bought
              /\ sold' = acc.sold
              /\ lastFeatures' = acc.feats
        /\ used' = [used EXCEPT !.trades =
              @ + Cardinality({p \in Traders \X Syms : sc[p[1]][p[2]] # 0})]
    /\ phaseLog' = Append(phaseLog, "trade")
    /\ pc' = NextPhase("trade")
    /\ UNCHANGED <<day, time, stocks, activeEvent, eventHistory,
                   marketIndexHistory, nextMacroEventDay,
                   trackedCorporateActions, trackedNewsEvents,
                   trackedGeneratedArticles, currentTime, endDate,
                   nextDayBoundary, dailyImpacts, ci, trainLog, call,
                   lastCall, lastSplit>>
    /\ UNCHANGED eqVars


(******************* runEndOfDayLogic: daily wrap-up ***********************)
\* Math.round(... + Math.random() * 50000) without trades: the middle of
\* the range by default, 0 for a draw below 0.00001
DefaultNoise == 25000
VolumeNoise == {0, DefaultNoise}
\* TAX_CONSTANTS.WASHINGTON_CG_EXEMPTION, in cents
WASHINGTON_CG_EXEMPTION == 250000 * 100
\* TAX_CONSTANTS.WASHINGTON_LTCG_RATE, in thousandths
WASHINGTON_LTCG_RATE == 70

\* calculateWashingtonTax
CalculateWashingtonTax(inv) ==
    IF inv.waAnnualNetLTCG <= WASHINGTON_CG_EXEMPTION THEN 0
    ELSE MulF(inv.waAnnualNetLTCG - WASHINGTON_CG_EXEMPTION, WASHINGTON_LTCG_RATE)

\* cash plus the holdings at the latest closes
TotalValue(inv, st) ==
    inv.cash + SumSeq([k \in 1..Len(inv.portfolio) |->
                  GetSharesOwned(inv.portfolio, inv.portfolio[k].symbol)
                    * Last(st[inv.portfolio[k].symbol].history).close])

\* a push that never drops the oldest point
PushUncapped(seq, x, cap) == Append(seq, x)

\* push, then shift when the window is exceeded
PushCapped(seq, x, cap) ==
    IF Len(seq) + 1 > cap THEN Tail(Append(seq, x)) ELSE Append(seq, x)

\* the annual settlement without the exemption of the human investor
AnnualTaxOnEveryone(inv, i, nextDay) ==
    IF nextDay % 365 = 0
    THEN LET taxDue == CalculateWashingtonTax(inv)
         IN [inv EXCEPT !.totalTaxesPaid = IF taxDue > 0 THEN @ + taxDue ELSE @,
                        !.cash = IF taxDue > 0 THEN @ - taxDue ELSE @,
                        !.waAnnualNetLTCG = 0]
    ELSE inv

\* lines 810-820 for one investor
AnnualTax(inv, i, nextDay) ==
    IF nextDay % 365 = 0 /\ ~IsHuman(i)
    THEN LET taxDue == CalculateWashingtonTax(inv)
         IN [inv EXCEPT !.totalTaxesPaid = IF taxDue > 0 THEN @ + taxDue ELSE @,
                        !.cash = IF taxDue > 0 THEN @ - taxDue ELSE @,
                        !.waAnnualNetLTCG = 0]
    ELSE inv

\* a wrap-up that seeds the next point under the day that has just closed
CloseDayUndated(stock, vol, noise, nextDay) ==
    IF stock.isDelisted THEN stock
    ELSE LET n == Len(stock.history)
             h == [stock.history EXCEPT ![n].volume = vol + noise]
             c == h[n].close
         IN [stock EXCEPT !.history =
                PushCapped(h, [day |-> nextDay - 1, open |-> c, high |-> c,
                               low |-> c, close |-> c, volume |-> 0],
                           INITIAL_HISTORY_LENGTH + 50)]

\* lines 788-792 and 823-828 for one company
CloseDay(stock, vol, noise, nextDay) ==
    IF stock.isDelisted THEN stock
    ELSE LET n == Len(stock.history)
             h == [stock.history EXCEPT ![n].volume = vol + noise]
             c == h[n].close
         IN [stock EXCEPT !.history =
                PushCapped(h, [day |-> nextDay, open |-> c, high |-> c,
                               low |-> c, close |-> c, volume |-> 0],
                           INITIAL_HISTORY_LENGTH + 50)]

DayClose ==
    /\ pc = "close"
    /\ LET nextDay == day + 1
       IN \E noise \in VolumeNoise :
          /\ noise = DefaultNoise \/ CanSpend(1)
          /\ used' = [used EXCEPT !.quiet = IF noise = DefaultNoise THEN @ ELSE @ + 1]
          /\ stocks' = [s \in Syms |->
                CloseDay(stocks[s], dailyTradeVolumes[s], noise, nextDay)]
          /\ investors' = [i \in Invs |->
                AnnualTax([investors[i] EXCEPT !.portfolioHistory =
                              PushCapped(@, [day |-> nextDay,
                                             value |-> TotalValue(investors[i], stocks)],
                                         200)],
                          i, nextDay)]
          /\ marketIndexHistory' =
                PushCapped(marketIndexHistory,
                           [day |-> nextDay, price |-> MarketIndex(stocks)],
                           INITIAL_HISTORY_LENGTH + 50)
    /\ phaseLog' = Append(phaseLog, "close")
    /\ pc' = NextPhase("close")
    /\ UNCHANGED <<day, time, activeEvent, eventHistory, nextMacroEventDay,
                   trackedCorporateActions, trackedNewsEvents,
                   trackedGeneratedArticles, currentTime, endDate,
                   nextDayBoundary, eodVars, trainLog, recorded, nextId,
                   bought, sold, call, lastCall, lastSplit, lastFeatures>>
    /\ UNCHANGED eqVars


(******************* playerBuyStock / playerSellStock **********************)
\* the arguments of an order: investor ids (one unknown), symbols (one
\* unknown), share counts (negative, zero, positive, beyond any holding or
\* cash balance)
PlayerIds == {"human-player", "nobody"}
PlayerSymbols == {"JPM", "ZZZZ"}
\* the symbols an order can name: the handlers pass on any symbol, so also
\* that of a company that has been delisted
OrderSymbols(st) == PlayerSymbols \cup {s \in Syms : st[s].isDelisted}
PlayerShares == {-1, 0, 1, 3, 4, 1000000}

\* the guards of playerBuyStock without the cash test
BuyRejectionWithoutCash(invs, st, playerId, symbol, shares) ==
    IF playerId \notin Invs THEN "unknown-investor"
    ELSE IF symbol \notin Syms THEN "unknown-symbol"
    ELSE IF shares <= 0 THEN "non-positive"
    ELSE "ok"

\* the guards of playerBuyStock that return prevState
BuyRejection(invs, st, playerId, symbol, shares) ==
    IF playerId \notin Invs THEN "unknown-investor"
    ELSE IF symbol \notin Syms THEN "unknown-symbol"
    ELSE IF shares <= 0 THEN "non-positive"
    ELSE IF invs[playerId].cash < Last(st[symbol].history).close * shares
         THEN "cash"
    ELSE "ok"

\* the guards of playerSellStock that return prevState
SellRejection(invs, st, playerId, symbol, sharesToSell) ==
    IF playerId \notin Invs THEN "unknown-investor"
    ELSE IF symbol \notin Syms THEN "unknown-symbol"
    ELSE IF sharesToSell <= 0 THEN "non-positive"
    ELSE IF FindItem(invs[playerId].portfolio, symbol) = 0 THEN "none-owned"
    ELSE IF GetSharesOwned(invs[playerId].portfolio, symbol) < sharesToSell
         THEN "too-few"
    ELSE "ok"

\* newLots of playerSellStock without the filter of emptied items
PlayerAfterSaleKeepsItems(pf, s, newLots) ==
    [pf EXCEPT ![FindItem(pf, s)].lots = newLots]

\* newLots of playerSellStock followed by the filter of emptied items
PlayerAfterSale(pf, s, newLots) ==
    SelectSeq([pf EXCEPT ![FindItem(pf, s)].lots = newLots],
              LAMBDA it : it.lots # <<>>)

\* prevState.investors as playerSellStock leaves it: inside the map
\* callback inv is the investor object of prevState, and the loop over
\* the sorted lots runs inv.waAnnualNetLTCG += gainOrLoss on it for every
\* lot held longer than the long-term period (lines 989-993)
InputAfterSale(invs, st, playerId, symbol, sharesToSell, now) ==
    [invs EXCEPT ![playerId].waAnnualNetLTCG =
        @ + LongTermGain(SaleOrder(LotsOf(invs[playerId].portfolio, symbol)),
                         sharesToSell, Last(st[symbol].history).close, now)]

PlayerBuyStock ==
    /\ pc = "idle"
    /\ CanSpend(1)
    /\ \E playerId \in PlayerIds, symbol \in OrderSymbols(stocks), shares \in PlayerShares :
        LET why == BuyRejection(investors, stocks, playerId, symbol, shares)
        IN /\ lastCall' = [op |-> "buy", investor |-> playerId,
                           symbol |-> symbol, shares |-> shares, why |-> why,
                           before |-> investors, input |-> investors]
           /\ IF why # "ok"
              THEN UNCHANGED <<investors, nextId, bought, used>>
              ELSE LET currentPrice == Last(stocks[symbol].history).close
                   IN /\ used' = [used EXCEPT !.calls = @ + 1]
                      /\ investors' = [investors EXCEPT
                            ![playerId].cash = @ - currentPrice * shares,
                            ![playerId].portfolio = AddLot(@, symbol,
                                [id |-> nextId, purchaseTime |-> time,
                                 purchasePrice |-> currentPrice,
                                 shares |-> shares])]
                      /\ nextId' = nextId + 1
                      /\ bought' = [bought EXCEPT ![playerId][symbol] = @ + shares]
    /\ pc' = "called"
    /\ UNCHANGED <<day, time, stocks, activeEvent, eventHistory,
                   marketIndexHistory, nextMacroEventDay,
                   trackedCorporateActions, trackedNewsEvents,
                   trackedGeneratedArticles, currentTime, endDate,
                   nextDayBoundary, eodVars, trainLog,
                   recorded, phaseLog, sold, call, lastSplit, lastFeatures>>
    /\ UNCHANGED eqVars

PlayerSellStock ==
    /\ pc = "idle"
    /\ CanSpend(1)
    /\ \E playerId \in PlayerIds, symbol \in OrderSymbols(stocks),
          sharesToSell \in PlayerShares :
        LET why == SellRejection(investors, stocks, playerId, symbol, sharesToSell)
        IN /\ lastCall' = [op |-> "sell", investor |-> playerId,
                           symbol |-> symbol, shares |-> sharesToSell,
                           why |-> why, before |-> investors,
                           input |-> IF why = "ok"
                                     THEN InputAfterSale(investors, stocks, playerId,
                                                         symbol, sharesToSell, time)
                                     ELSE investors]
           /\ IF why # "ok"
              THEN UNCHANGED <<investors, sold, used>>
              ELSE LET currentPrice == Last(stocks[symbol].history).close
                       sortedLots == SaleOrder(LotsOf(investors[playerId].portfolio,
                                                      symbol))
                   IN /\ used' = [used EXCEPT !.calls = @ + 1]
                      /\ investors' = [investors EXCEPT
                            ![playerId].cash = @ + sharesToSell * currentPrice,
                            ![playerId].waAnnualNetLTCG =
                                @ + LongTermGain(sortedLots, sharesToSell,
                                                 currentPrice, time),
                            ![playerId].portfolio = PlayerAfterSale(@, symbol,
                                ConsumeLots(sortedLots, sharesToSell))]
                      /\ sold' = [sold EXCEPT ![playerId][symbol] = @ + sharesToSell]
    /\ pc' = "called"
    /\ UNCHANGED <<day, time, stocks, activeEvent, eventHistory,
                   marketIndexHistory, nextMacroEventDay,
                   trackedCorporateActions, trackedNewsEvents,
                   trackedGeneratedArticles, currentTime, endDate,
                   nextDayBoundary, eodVars, trainLog,
                   recorded, nextId, phaseLog, bought, call, lastSplit,
                   lastFeatures>>
    /\ UNCHANGED eqVars

\* the host stores the state the order returned
SetSimulationState ==
    /\ pc = "called"
    /\ pc' = "idle"
    /\ lastCall' = NoCall
    /\ UNCHANGED <<simVars, currentTime, endDate, nextDayBoundary, eodVars,
                   trainLog, recorded, nextId, phaseLog, bought, sold, call,
                   lastSplit, lastFeatures, used>>
    /\ UNCHANGED eqVars

(****************************** specification ******************************)
RunEndOfDayLogic ==
    \/ Settle
    \/ MacroEvent
    \/ CorporateStep
    \/ PriceUpdate
    \/ TradingPass
    \/ DayClose

AdvanceTime ==
    \/ AdvanceTimeBegin
    \/ LoopStep
    \/ RunEndOfDayLogic
    \/ DayIncrement
    \/ AdvanceTimeEnd

Next ==
    \/ AdvanceTime
    \/ PlayerBuyStock
    \/ PlayerSellStock
    \/ SetSimulationState

Spec == Init /\ [][Next]_vars

\* the same simulation late in a tax year in which ai-1 has realised
\* long-term gains of 10,000.00 above the exemption and spent the proceeds
TaxedInvestors ==
    [InitInvestors EXCEPT
        !["ai-1"].waAnnualNetLTCG = WASHINGTON_CG_EXEMPTION + 1000000]

InitTax ==
    \E clock \in StartClock :
        /\ InitWith(clock, TaxedInvestors)
        /\ used = [trades |-> 0, corp |-> 0, events |-> 0, moves |-> 0, quiet |-> 0,
                   calls |-> 0, speeds |-> IF clock = 34200 THEN 0 ELSE 1]
        /\ twin = NoTwin

SpecTax == InitTax /\ [][Next]_vars

\* the number of days without any volume behind the running day
QuietDays == 18

\* the same simulation after QuietDays days on which no share changed
\* hands and the volume noise rounded to 0
QuietStocks ==
    [s \in Syms |->
        [InitStocks("SAP")[s] EXCEPT !.history =
            [i \in DOMAIN @ |->
                IF i >= Len(@) - QuietDays THEN [@[i] EXCEPT !.volume = 0]
                ELSE @[i]]]]

InitQuiet ==
    \E clock \in StartClock :
        /\ InitFrom(clock, InitInvestors, QuietStocks)
        /\ used = [trades |-> 0, corp |-> 0, events |-> 0, moves |-> 0, quiet |-> 0,
                   calls |-> 0, speeds |-> IF clock = 34200 THEN 0 ELSE 1]
        /\ twin = NoTwin

SpecQuiet == InitQuiet /\ [][Next]_vars

\* the same simulation with the host at 3d/s from the start: the first
\* departure from 1d/s is not counted among the draws
InitFast ==
    /\ InitState(34200)
    /\ used = [trades |-> 0, corp |-> 0, events |-> 0, moves |-> 0, quiet |-> 0,
               calls |-> 0, speeds |-> -1]
    /\ twin = NoTwin

SpecFast == InitFast /\ [][Next]_vars

\* the same simulation where the first corporate action decided is not
\* counted among the draws
InitDeal ==
    /\ InitState(34200)
    /\ used = [trades |-> 0, corp |-> -1, events |-> 0, moves |-> 0, quiet |-> 0,
               calls |-> 0, speeds |-> 0]
    /\ twin = NoTwin

SpecDeal == InitDeal /\ [][Next]_vars


(******************* a second run over the same days ***********************)
\* The clock of advanceTime run a second time from the initial state, as
\* one call of n days.  runEndOfDayLogic reads and writes neither
\* currentTime, endDate nor nextDayBoundary, so the second run carries the
\* clock alone and records the midnights at which it invokes the daily
\* transition.
TwinBegin ==
    /\ twin.pc = "off"
    /\ pc = "idle"
    /\ invoked = <<>>
    /\ \E n \in 1..MaxDays :
        /\ (time + n * secondsInDay) \div secondsInDay <= StartDay + MaxDays
        /\ twin' = [pc |-> "loop", n |-> n, start |-> time, day |-> day,
                    time |-> time, currentTime |-> time,
                    endDate |-> time + n * secondsInDay,
                    nextDayBoundary |-> NextMidnight(time), entered |-> <<>>]
    /\ UNCHANGED <<simVars, loopVars, eodVars, obsVars, invoked>>

TwinLoopStep ==
    /\ twin.pc = "loop"
    /\ twin.currentTime < twin.endDate
    /\ LET stepSeconds == StepSeconds(twin.currentTime, twin.endDate,
                                      twin.nextDayBoundary)
           crossed == twin.currentTime + stepSeconds >= twin.nextDayBoundary
       IN twin' = [twin EXCEPT
                     !.currentTime = @ + stepSeconds,
                     !.entered = IF crossed THEN Append(@, twin.nextDayBoundary)
                                 ELSE @,
                     !.pc = IF crossed THEN "return" ELSE "loop"]
    /\ UNCHANGED <<simVars, loopVars, eodVars, obsVars, invoked>>

TwinDayIncrement ==
    /\ twin.pc = "return"
    /\ twin' = [twin EXCEPT !.day = @ + 1,
                            !.nextDayBoundary = NextBoundary(@),
                            !.pc = "loop"]
    /\ UNCHANGED <<simVars, loopVars, eodVars, obsVars, invoked>>

TwinEnd ==
    /\ twin.pc = "loop"
    /\ ~(twin.currentTime < twin.endDate)
    /\ twin' = [twin EXCEPT !.time = twin.currentTime, !.pc = "done"]
    /\ UNCHANGED <<simVars, loopVars, eodVars, obsVars, invoked>>

\* the host at 1d/s with every draw at its default, beside the second run
InitEq ==
    \E clock \in StartClock :
        /\ InitState(clock)
        /\ used = [trades |-> 0, corp |-> 0, events |-> 0, moves |-> 0, quiet |-> 0,
                   calls |-> 0, speeds |-> MaxChoices]
        /\ twin = NoTwin

NextEq ==
    \/ AdvanceTime
    \/ TwinBegin
    \/ TwinLoopStep
    \/ TwinDayIncrement
    \/ TwinEnd

SpecEq == InitEq /\ [][NextEq]_vars


(****************************** properties *********************************)
PhaseOrder == <<"settle", "macro", "corporate", "price", "trade", "close">>

\* the ids held by a ledger
LedgerIds(ledger) ==
    IF ledger = "corporate"
    THEN {trackedCorporateActions[k].id : k \in 1..Len(trackedCorporateActions)}
    ELSE IF ledger = "news"
    THEN {trackedNewsEvents[k].id : k \in 1..Len(trackedNewsEvents)}
    ELSE IF ledger = "article"
    THEN {trackedGeneratedArticles[k].id : k \in 1..Len(trackedGeneratedArticles)}
    ELSE UNION {{investors[i].recentTrades[k].id :
                    k \in 1..Len(investors[i].recentTrades)} : i \in Invs}

\* the training calls made for an entry
CallsFor(e) ==
    {k \in 1..Len(trainLog) :
        trainLog[k].ledger = e.ledger /\ trainLog[k].id = e.id}

\* C1: for each of the four ledgers, an entry recorded with evaluation day
\* E gets exactly one training call, made in the daily transition that
\* brings the day to E, none in an earlier transition, and has left its
\* ledger once that transition is over.
C1_SettledOnEvaluationDay ==
    \A e \in recorded :
        /\ \A k \in CallsFor(e) : trainLog[k].day = e.evaluationDay
        /\ Cardinality(CallsFor(e)) <= 1
        /\ day >= e.evaluationDay =>
              /\ Cardinality(CallsFor(e)) = 1
              /\ e.id \notin LedgerIds(e.ledger)

\* C2: no entry appended during a run of runEndOfDayLogic is settled in
\* that run: every entry of a ledger has an evaluation day after the day it
\* was recorded for, every training call is made in a later transition than
\* the one that recorded its entry, and the settlement of a run is over
\* (and no call is made after it) when the run appends its first entry.
C2_NoTrainingOnTheTickItActs ==
    /\ [](/\ \A k \in 1..Len(trackedCorporateActions) :
                trackedCorporateActions[k].evaluationDay
                    > trackedCorporateActions[k].startDay
          /\ \A k \in 1..Len(trackedNewsEvents) :
                trackedNewsEvents[k].evaluationDay > trackedNewsEvents[k].startDay
          /\ \A k \in 1..Len(trackedGeneratedArticles) :
                trackedGeneratedArticles[k].evaluationDay
                    > trackedGeneratedArticles[k].startDay
          /\ \A i \in Invs : \A k \in 1..Len(investors[i].recentTrades) :
                investors[i].recentTrades[k].outcomeEvaluationDay
                    > investors[i].recentTrades[k].day
          /\ \A e \in recorded : \A k \in CallsFor(e) : trainLog[k].day > e.startDay
          /\ (\E e \in recorded : e.startDay = day + 1) =>
                (phaseLog # <<>> /\ phaseLog[1] = "settle"))
    /\ [][/\ recorded' # recorded => (trainLog' = trainLog /\ pc # "settle")
          /\ trainLog' # trainLog =>
                (pc = "settle" /\ \A e \in recorded' : e.startDay <= day)]_vars

\* a run has appended a trade after its settlement step
C2_Witness ==
    /\ pc = "close"
    /\ \E e \in recorded : e.ledger = "trade" /\ e.startDay = day + 1
    /\ \E k \in 1..Len(trainLog) : trainLog[k].day = day + 1

\* C3: within one runEndOfDayLogic the steps run in the fixed order
\* settlement, macro event, corporate decisions, price update, trading,
\* day close, each finished before the next begins.
C3_FixedStepOrder ==
    /\ Len(phaseLog) <= Len(PhaseOrder)
    /\ \A k \in 1..Len(phaseLog) : phaseLog[k] = PhaseOrder[k]
    /\ pc \in Range(PhaseOrder) => pc = PhaseOrder[Len(phaseLog) + 1]
    /\ pc = "return" => phaseLog = PhaseOrder

\* a run has gone through all six steps
C3_Witness == pc = "return" /\ phaseLog = PhaseOrder

\* the lots an investor holds of a symbol, as a set
LotSet(invs, i, s) == Range(LotsOf(invs[i].portfolio, s))

\* C4: for every investor and symbol the shares over its lots equal the
\* shares bought minus the shares sold, and a step reduces or removes a lot
\* only when every lot with an earlier purchaseTime is gone after it.
C4_FifoLots ==
    /\ [](\A i \in Invs, s \in Syms :
             GetSharesOwned(investors[i].portfolio, s) = bought[i][s] - sold[i][s])
    /\ [][\A i \in Invs, s \in Syms :
            \A a \in LotSet(investors, i, s), b \in LotSet(investors, i, s) :
               (/\ a.purchaseTime < b.purchaseTime
                /\ b \notin LotSet(investors', i, s))
               => ~\E c \in LotSet(investors', i, s) : c.id = a.id]_vars

\* the human player has sold three shares: the older lot of one share is
\* gone and the newer lot of three is down to one
C4_Witness ==
    /\ sold["human-player"]["JPM"] = 3
    /\ \E b \in LotSet(investors, "human-player", "JPM") :
          b.id = SeedLotI.id /\ b.shares = 1
    /\ ~\E a \in LotSet(investors, "human-player", "JPM") : a.id = SeedLotH.id

\* C5: right after a split with ratio r the latest close times the shares
\* outstanding is what it was before (to the rounding of one cent per
\* price), the share count is r times and eps is 1/r of what it was; for
\* r = 2 the price and eps are halved and the share count doubled.
C5_SplitPreservesCap ==
    lastSplit.symbol # "none" =>
        LET st == stocks[lastSplit.symbol]
            r == lastSplit.ratio
            closeAfter == Last(st.history).close
        IN /\ r >= 2
           /\ st.sharesOutstanding = r * lastSplit.sharesOutstanding
           /\ 2 * Abs(closeAfter * r - lastSplit.close) <= r
           /\ 2 * Abs(MarketCap(st) - lastSplit.close * lastSplit.sharesOutstanding)
                 <= r * lastSplit.sharesOutstanding
           /\ 2 * Abs(st.eps * r - lastSplit.eps) <= r
           /\ r = 2 => /\ closeAfter = RDiv(lastSplit.close, 2)
                       /\ st.sharesOutstanding = 2 * lastSplit.sharesOutstanding
                       /\ st.eps = RDiv(lastSplit.eps, 2)

\* a company has just split two for one
C5_Witness ==
    /\ lastSplit.symbol # "none"
    /\ lastSplit.ratio = 2
    /\ stocks[lastSplit.symbol].sharesOutstanding = 2 * lastSplit.sharesOutstanding

\* an order the contract rejects: unknown investor or symbol, no positive
\* share count, a buyer short of cash, a seller short of shares
InvalidOrder(c, invs, st) ==
    \/ c.investor \notin Invs
    \/ c.symbol \notin Syms
    \/ c.shares <= 0
    \/ /\ c.op = "buy"
       /\ invs[c.investor].cash < Last(st[c.symbol].history).close * c.shares
    \/ /\ c.op = "sell"
       /\ GetSharesOwned(invs[c.investor].portfolio, c.symbol) < c.shares

\* C6: playerBuyStock and playerSellStock return the state they were given
\* when the investor id or the symbol is unknown, the share count is not
\* positive, the buyer's cash is below price times shares, or the seller
\* owns fewer shares than requested.
C6_InvalidOrdersLeaveState ==
    [][(pc = "idle" /\ pc' = "called" /\ InvalidOrder(lastCall', investors, stocks))
          => UNCHANGED simVars]_vars

\* a sale of more shares than the player owns has returned
C6_Witness ==
    /\ pc = "called"
    /\ lastCall.op = "sell"
    /\ lastCall.investor \in Invs
    /\ lastCall.symbol \in Syms
    /\ lastCall.shares > GetSharesOwned(investors[lastCall.investor].portfolio,
                                        lastCall.symbol)
    /\ GetSharesOwned(investors[lastCall.investor].portfolio, lastCall.symbol) > 0

\* the UTC midnights m with start < m <= start + secs, in order
MidnightsIn(start, secs) ==
    LET first == (start \div secondsInDay) + 1
        last == (start + secs) \div secondsInDay
    IN IF last < first THEN <<>>
       ELSE [k \in 1..(last - first + 1) |-> (first + k - 1) * secondsInDay]

\* C7: advanceTime terminates (every iteration of its loop moves the clock
\* forward, never beyond the end), invokes runEndOfDayLogic once for each
\* UTC midnight m with start < m <= start + secondsToAdvance, adds that
\* number to the day, and sets the time to start + secondsToAdvance.
C7_AdvanceTimeContract ==
    [][/\ (pc = "loop" /\ pc' # "idle") =>
             (currentTime' > currentTime /\ currentTime' <= endDate)
       /\ (pc = "loop" /\ pc' = "idle") =>
             /\ time' = call.start + call.secs
             /\ call.entered = MidnightsIn(call.start, call.secs)
             /\ day' = call.startDay + Len(call.entered)]_vars

\* a call of three days is about to return
C7_Witness ==
    /\ pc = "loop"
    /\ ~(currentTime < endDate)
    /\ call.secs = 3 * secondsInDay
    /\ Len(call.entered) = 3

\* C8: n calls of 86400 seconds and one call of n * 86400 seconds from the
\* same state end with the same day, the same time and the same sequence
\* of daily transitions.
C8_DayBoundaryEquivalence ==
    (/\ twin.pc = "done"
     /\ pc = "idle"
     /\ time = twin.start + twin.n * secondsInDay)
    => /\ day = twin.day
       /\ time = twin.time
       /\ invoked = twin.entered

\* three one-day calls and one three-day call have both returned
C8_Witness ==
    /\ twin.pc = "done"
    /\ twin.n = 3
    /\ pc = "idle"
    /\ time = twin.start + 3 * secondsInDay
    /\ Len(invoked) = 3

\* C9: a delisted company stays delisted, and no step changes or extends
\* its price history or changes its sharesOutstanding or eps.
C9_DelistingIsTerminal ==
    [][\A s \in Syms : stocks[s].isDelisted =>
          /\ stocks'[s].isDelisted
          /\ stocks'[s].history = stocks[s].history
          /\ stocks'[s].sharesOutstanding = stocks[s].sharesOutstanding
          /\ stocks'[s].eps = stocks[s].eps]_vars

\* a company has been delisted for two days of diffusion and transitions
C9_Witness ==
    \E s \in Syms :
        /\ stocks[s].isDelisted
        /\ day >= Last(stocks[s].history).day + 2

\* 50-day momentum of the equal-weighted mean close over a set of companies
ActiveMomentum(group, st) ==
    LET act == SelectSeq(group, LAMBDA x : ~st[x].isDelisted)
        cur == SumSeq([k \in 1..Len(act) |-> Last(st[act[k]].history).close])
        past == SumSeq([k \in 1..Len(act) |->
                   LET h == st[act[k]].history IN h[Max(1, Len(h) - 50)].close])
    IN IF Len(act) > 0 /\ past > 0 THEN Ret(cur, past) ELSE 0

\* C10: every cross-company aggregate of a daily transition is taken over
\* the non-delisted companies only: the sector and region momentum features
\* of the trading pass, and the market index point of the day close.
C10_AggregatesOverActiveOnly ==
    /\ pc = "close" =>
          \A s \in Syms :
             (~stocks[s].isDelisted /\ lastFeatures[s].day = day + 1) =>
                /\ lastFeatures[s].sector = ActiveMomentum(SectorGroup(s), stocks)
                /\ lastFeatures[s].region = ActiveMomentum(RegionGroup(s), stocks)
    /\ pc = "return" =>
          LET act == SelectSeq(STOCK_SYMBOLS, LAMBDA x : ~stocks[x].isDelisted)
          IN Len(act) > 0 =>
                Last(marketIndexHistory).price =
                   RDiv(SumSeq([k \in 1..Len(act) |->
                                  Last(stocks[act[k]].history).close]), Len(act))

\* C11: in every reachable state every price point of every company has
\* open, high, low and close above zero, high at or above both open and
\* close, and low at or below both, the day's point after the price update
\* pass included.
C11_PricePointsWellFormed ==
    \A s \in Syms : \A k \in 1..Len(stocks[s].history) :
        LET p == stocks[s].history[k]
        IN /\ p.open > 0 /\ p.high > 0 /\ p.low > 0 /\ p.close > 0
           /\ p.high >= Max(p.open, p.close)
           /\ p.low <= Min(p.open, p.close)

\* the sequence after is the sequence before with one point of day d
\* pushed, the oldest dropped when the window cap was full
PushedOne(before, after, d, cap) ==
    LET off == Len(before) + 1 - Len(after)
    IN /\ Len(after) = Min(Len(before) + 1, cap)
       /\ Last(after).day = d
       /\ \A k \in 1..(Len(after) - 1) : after[k].day = before[k + off].day

\* C12: the histories stay within their windows (price history and market
\* index INITIAL_HISTORY_LENGTH + 50, portfolioHistory 200, eventHistory
\* 100); the day close of a transition appends exactly one price point per
\* active company, one index point and one valuation per investor, no other
\* step appends any, and the oldest entry is the one dropped at the cap.
C12_HistoriesBounded ==
    /\ [](/\ \A s \in Syms : Len(stocks[s].history) <= INITIAL_HISTORY_LENGTH + 50
          /\ Len(marketIndexHistory) <= INITIAL_HISTORY_LENGTH + 50
          /\ \A i \in Invs : Len(investors[i].portfolioHistory) <= 200
          /\ Len(eventHistory) <= 100)
    /\ [][/\ (pc = "close" /\ pc' = "return") =>
               /\ \A s \in Syms :
                     IF stocks[s].isDelisted
                     THEN stocks'[s].history = stocks[s].history
                     ELSE PushedOne(stocks[s].history, stocks'[s].history,
                                    day + 1, INITIAL_HISTORY_LENGTH + 50)
               /\ PushedOne(marketIndexHistory, marketIndexHistory', day + 1,
                            INITIAL_HISTORY_LENGTH + 50)
               /\ \A i \in Invs :
                     PushedOne(investors[i].portfolioHistory,
                               investors'[i].portfolioHistory, day + 1, 200)
          /\ ~(pc = "close" /\ pc' = "return") =>
               /\ \A s \in Syms :
                     /\ Len(stocks'[s].history) = Len(stocks[s].history)
                     /\ Last(stocks'[s].history).day = Last(stocks[s].history).day
               /\ marketIndexHistory' = marketIndexHistory
               /\ \A i \in Invs :
                     investors'[i].portfolioHistory = investors[i].portfolioHistory
          /\ eventHistory' # eventHistory =>
               /\ eventHistory'[1].day = day + 1
               /\ SubSeq(eventHistory', 2, Len(eventHistory'))
                    = SubSeq(eventHistory, 1, Len(eventHistory') - 1)]_vars

\* a day close and an event have both pushed onto full windows
C12_Witness ==
    /\ pc = "return"
    /\ \E s \in Syms :
          /\ Len(stocks[s].history) = INITIAL_HISTORY_LENGTH + 50
          /\ Last(stocks[s].history).day = day + 1
          /\ stocks[s].history[1].day = day + 1 - (INITIAL_HISTORY_LENGTH + 49)
    /\ Len(eventHistory) = 100
    /\ eventHistory[1].day = day + 1
    /\ Len(investors["ai-1"].portfolioHistory) = 200
    /\ Last(investors["ai-1"].portfolioHistory).day = day + 1

\* C13: an event promoted to activeEvent applies its price impact in the
\* price update pass of the transition that promoted it and in no later
\* one: whenever a price update pass is about to run with an active event
\* that carries an impact, that event was generated in this transition.
C13_ActiveEventOneDayOnly ==
    (pc = "price" /\ activeEvent # NoEvent /\ activeEvent.kind # "none")
        => activeEvent.day = day + 1

\* the steps of runEndOfDayLogic
EodPhases == {"settle", "macro", "corporate", "price", "trade", "close"}

RandomTraders == {i \in Invs : ~IsHuman(i) /\ ~HasNetwork(i)}

\* the trading pass can execute an order for investor i
CanTrade(i) ==
    \E sc \in TradeDraws :
        \/ TradeResult(sc).bought[i] # bought[i]
        \/ TradeResult(sc).sold[i] # sold[i]

\* C15: an AI investor with the Random strategy trades with probability
\* tradeChance, no network consulted: whenever the trading pass runs over
\* an active company with a draw left to take and a fifth of the investor's
\* cash pays for a share, an order of that investor is a possible outcome
\* of the pass, so a state in which it has traded is reachable.
C15_RandomStrategyTrades ==
    \A i \in RandomTraders :
        (/\ pc = "trade"
         /\ CanSpend(1)
         /\ \E s \in Syms :
               /\ ~stocks[s].isDelisted
               /\ investors[i].cash * 2 >= 10 * Last(stocks[s].history).close)
            => CanTrade(i)

\* C16: no investor's cash is negative, after any sequence of daily
\* transitions (AI purchases, AI sales, the annual tax settlement) and
\* player trades.
C16_CashNeverNegative ==
    \A i \in Invs : investors[i].cash >= 0

\* C17: advanceTime leaves its input state intact: while the call runs and
\* when it returns, the weights of every network reachable from prevState
\* have the values they had when the call was entered.
C17_InputStateIntact ==
    pc \notin {"idle", "called"} =>
        \A n \in Networks : PrevStateWeights(n) = call.weights[n]

\* C18: playerBuyStock and playerSellStock are immutable updates: after a
\* successful order no field of the input state has changed (the
\* investor's cash, lots and waAnnualNetLTCG included), and the returned
\* state differs from it only in the trading investor's cash, portfolio
\* and gain accumulator.
C18_PlayerOrdersImmutable ==
    (pc = "called" /\ lastCall.why = "ok") =>
        /\ lastCall.input = lastCall.before
        /\ \A i \in Invs \ {lastCall.investor} : investors[i] = lastCall.before[i]
        /\ LET was == lastCall.before[lastCall.investor]
               now == investors[lastCall.investor]
           IN was = [now EXCEPT !.cash = was.cash,
                                !.portfolio = was.portfolio,
                                !.waAnnualNetLTCG = was.waAnnualNetLTCG]

\* C19: the learnable trace the article generator returns is stored
\* unchanged in trackedGeneratedArticles (every entry recorded since the
\* start holds the trace of its generation), and the trace stored is the
\* one handed to newsGeneratorAI.learn when the entry is settled.
C19_ArticleTraceKept ==
    /\ [](\A k \in 1..Len(trackedGeneratedArticles) :
            LET a == trackedGeneratedArticles[k]
            IN a.startDay > StartDay =>
                  a.generatedTokens = GenerateNewsArticle(a.id).learningTokens)
    /\ [][pc = "settle" =>
            \A k \in 1..Len(trackedGeneratedArticles) :
                LET a == trackedGeneratedArticles[k]
                IN day + 1 >= a.evaluationDay =>
                      \E j \in (Len(trainLog) + 1)..Len(trainLog') :
                          /\ trainLog'[j].net = "newsGeneratorAI"
                          /\ trainLog'[j].id = a.id
                          /\ trainLog'[j].trace = a.generatedTokens]_vars

\* the event names company s: s is its subject, or its impact lists the
\* sector or the region of s; an event with one impact and no subject
\* company is about the whole market
NamesCompany(ev, s) ==
    \/ ev.stockSymbol = s
    \/ ev.kind = "scalar" /\ ev.stockSymbol = "null"
    \/ ev.kind = "map" /\ (HasKey(ev.m, Sector(s)) \/ HasKey(ev.m, RegionOf(s)))

\* the full factor f of the event as it bears on company s
FullFactor(ev, s) ==
    IF ev.kind = "scalar" THEN ev.f
    ELSE IF HasKey(ev.m, Sector(s)) THEN Lookup(ev.m, Sector(s))
    ELSE IF HasKey(ev.m, RegionOf(s)) THEN Lookup(ev.m, RegionOf(s))
    ELSE IF HasKey(ev.m, ev.region) THEN Lookup(ev.m, ev.region)
    ELSE (CHOOSE p \in ev.m : TRUE)[2]

\* f for a company the event names, 1 + (f - 1) * 0.25 for any other
DampedFactor(ev, s) ==
    IF ev = NoEvent \/ ev.kind = "none" THEN 1000
    ELSE IF NamesCompany(ev, s) THEN FullFactor(ev, s)
    ELSE 1000 + SDiv((FullFactor(ev, s) - 1000) * 25, 100)

\* C20: in the price update pass the active event's full factor f is
\* applied only to the companies the event names (its subject company, or
\* the companies of a sector or region it lists); every other active
\* company gets the damped factor 1 + (f - 1) * 0.25.
C20_SpilloverForUnnamed ==
    [][(pc = "price") =>
        \A s \in Syms :
            ~stocks[s].isDelisted =>
                Last(stocks'[s].history).close =
                    Max(1, MulF(MulF(ApplyDrag(Last(stocks[s].history).close,
                                               Sector(s)),
                                     DampedFactor(activeEvent, s)),
                                dailyImpacts[s]))]_vars

\* the macro pool of the category with index c, the whole of MACRO_EVENTS
\* when the category has no events
MacroPool(c) ==
    LET own == SelectSeq(MACRO_EVENTS,
                         LAMBDA e : e.category = NEWS_EVENT_CATEGORIES[c + 1])
    IN IF Len(own) > 0 THEN own ELSE MACRO_EVENTS

\* the macro events generated in the running daily transition
MacroEventsOfTheDay ==
    {k \in 1..Len(eventHistory) :
        eventHistory[k].day = day + 1 /\ eventHistory[k].stockSymbol = "null"}

\* C21: a daily transition entering day D >= nextMacroEventDay generates
\* exactly one macro event, drawn from the pool of the chosen category (the
\* whole pool when that is empty), appends exactly one news-category entry
\* due on D + 5 and moves nextMacroEventDay beyond D; that event is the
\* active event whose impact the price update pass of the same transition
\* applies. With D < nextMacroEventDay no macro event is generated.
C21_MacroEventOfTheDay ==
    /\ [][(pc = "macro") =>
            IF day + 1 >= nextMacroEventDay
            THEN /\ Len(trackedNewsEvents') = Len(trackedNewsEvents) + 1
                 /\ SubSeq(trackedNewsEvents', 1, Len(trackedNewsEvents))
                       = trackedNewsEvents
                 /\ Last(trackedNewsEvents').evaluationDay = day + 1 + 5
                 /\ eventHistory' = UnshiftEvent(eventHistory, eventHistory'[1])
                 /\ eventHistory'[1].day = day + 1
                 /\ eventHistory'[1].stockSymbol = "null"
                 /\ \E k \in 1..Len(MacroPool(Last(trackedNewsEvents').chosenCategoryIndex)) :
                       LET cfg == MacroPool(Last(trackedNewsEvents').chosenCategoryIndex)[k]
                           ev == eventHistory'[1]
                       IN /\ ev.type = cfg.type /\ ev.kind = cfg.kind
                          /\ ev.f = cfg.f /\ ev.m = cfg.m /\ ev.region = cfg.region
                 /\ activeEvent' = eventHistory'[1]
                 /\ nextMacroEventDay' > day + 1
            ELSE /\ eventHistory' = eventHistory
                 /\ trackedNewsEvents' = trackedNewsEvents
                 /\ nextMacroEventDay' = nextMacroEventDay
                 /\ activeEvent' = activeEvent]_vars
    /\ [](pc = "price" =>
            \A k \in MacroEventsOfTheDay : activeEvent = eventHistory[k])

\* the corporate action the step executes, read off the corporate-action
\* ledger
Executed ==
    IF Len(trackedCorporateActions') = Len(trackedCorporateActions) + 1
    THEN Last(trackedCorporateActions').actionType
    ELSE "none"

\* the first network, in the order split, alliance, acquisition, whose
\* score exceeds its threshold
FirstAbove(d) ==
    IF d.splitScore > 15 THEN "split"
    ELSE IF d.allianceScore > 20 THEN "alliance"
    ELSE IF d.acquisitionScore > 25 THEN "acquisition"
    ELSE "none"

\* the same with what each action needs besides its score: a split a
\* close above MIN_STOCK_SPLIT_PRICE (the alliance network is consulted
\* otherwise), an alliance another active company of the sector (no
\* action otherwise, the acquisition network is not consulted), an
\* acquisition an active company of the sector of less than half the
\* market capitalisation
FirstFeasible(d, st) ==
    LET s == d.company
        peers == {x \in Syms \ {s} : Sector(x) = Sector(s) /\ ~st[x].isDelisted}
    IN IF d.splitScore > 15 /\ Last(st[s].history).close > MIN_STOCK_SPLIT_PRICE
       THEN "split"
       ELSE IF d.allianceScore > 20
            THEN IF peers # {} THEN "alliance" ELSE "none"
            ELSE IF d.acquisitionScore > 25
                    /\ \E x \in peers : 2 * MarketCap(st[x]) < MarketCap(st[s])
                 THEN "acquisition"
                 ELSE "none"

\* C22 as stated: a company past its cooldown executes the action of the
\* first network, in the order split, alliance, acquisition, whose score
\* exceeds its threshold (1.5, 2.0, 2.5), and at most one action.
C22_FirstNetworkAboveThreshold ==
    [][(pc = "corporate") =>
        (LET d == lastSplit'.decided
         IN /\ Len(trackedCorporateActions') <= Len(trackedCorporateActions) + 1
            /\ d.scored => Executed = FirstAbove(d)
            /\ ~d.scored => Executed = "none")]_vars

\* C22, amended: a company past its cooldown executes the action of the
\* first network in the order split, alliance, acquisition whose score
\* exceeds its threshold, provided the action can be carried out: a split
\* score above 1.5 at a close not above MIN_STOCK_SPLIT_PRICE passes on to
\* the alliance network, an alliance score above 2.0 without a partner
\* ends the step with no action, an acquisition score above 2.5 without a
\* target executes nothing. No company executes more than one action in
\* one daily transition.
C22_FirstFeasibleNetwork ==
    [][(pc = "corporate") =>
        (LET d == lastSplit'.decided
         IN /\ Len(trackedCorporateActions') <= Len(trackedCorporateActions) + 1
            /\ ci' = ci + 1
            /\ d.scored =>
                  /\ Executed = FirstFeasible(d, stocks)
                  /\ Executed # "none" =>
                        Last(trackedCorporateActions').stockSymbol = d.company
                  /\ (Executed = "split") = (lastSplit'.symbol = d.company)
                  /\ (Executed = "acquisition") =
                        (\E x \in Syms : stocks'[x].isDelisted /\ ~stocks[x].isDelisted)
            /\ ~d.scored => Executed = "none")]_vars

\* a company has split although its alliance and acquisition networks
\* scored above their thresholds as well
C22_Witness ==
    /\ lastSplit.symbol # "none"
    /\ lastSplit.decided.company = lastSplit.symbol
    /\ lastSplit.decided.splitScore > 15
    /\ lastSplit.decided.allianceScore > 20
    /\ lastSplit.decided.acquisitionScore > 25

\* the companies that executed an acquisition in the running transition,
\* from the corporate-action ledger
AcquirersOfTheDay ==
    {trackedCorporateActions[k].stockSymbol :
        k \in {j \in 1..Len(trackedCorporateActions) :
                 /\ trackedCorporateActions[j].startDay = day + 1
                 /\ trackedCorporateActions[j].actionType = "acquisition"}}

\* the companies acquired in the running transition: delisted, their
\* multiplier of the day holding the target bump of 1.15
TargetsOfTheDay ==
    {x \in Syms : stocks[x].isDelisted /\ dailyImpacts[x] >= 1150}

\* C23: when a company executes an acquisition, that day's price update
\* pass multiplies the acquirer's close by the acquirer bump (1.05) and the
\* target's close by the larger bump (1.15), and the target is delisted.
C23_AcquisitionBumps ==
    [][(pc = "price") =>
        /\ \A a \in AcquirersOfTheDay :
              /\ dailyImpacts[a] >= 1050
              /\ Last(stocks'[a].history).close =
                    NewClose(stocks[a], a, activeEvent, dailyImpacts[a])
        /\ \A x \in TargetsOfTheDay :
              /\ Last(stocks'[x].history).close =
                    NewClose(stocks[x], x, activeEvent, dailyImpacts[x])
              /\ stocks'[x].isDelisted]_vars

\* C24: every executed corporate action resets the acting company's
\* cooldown and appends exactly one entry to the corporate-action ledger:
\* after an action executed while entering day D the company's networks
\* are not scored and it executes nothing before day
\* D + MIN_CORPORATE_ACTION_INTERVAL.
C24_CooldownAfterAction ==
    /\ [][(pc = "corporate") =>
            (LET s == STOCK_SYMBOLS[ci]
                 d == lastSplit'.decided
             IN /\ Executed # "none" =>
                      /\ stocks'[s].nextCorporateActionDay
                            >= day + 1 + MIN_CORPORATE_ACTION_INTERVAL
                      /\ Last(trackedCorporateActions').stockSymbol = s
                      /\ Last(trackedCorporateActions').startDay = day + 1
                      /\ SubSeq(trackedCorporateActions', 1,
                                Len(trackedCorporateActions))
                            = trackedCorporateActions
                /\ Executed = "none" =>
                      /\ trackedCorporateActions' = trackedCorporateActions
                      /\ stocks'[s].nextCorporateActionDay
                            = stocks[s].nextCorporateActionDay
                /\ day + 1 < stocks[s].nextCorporateActionDay =>
                      /\ ~d.scored
                      /\ Executed = "none")]_vars
    /\ [](\A j, k \in 1..Len(trackedCorporateActions) :
            LET a == trackedCorporateActions[j]
                b == trackedCorporateActions[k]
            IN (j # k /\ a.stockSymbol = b.stockSymbol /\ a.startDay <= b.startDay)
                  => b.startDay >= a.startDay + MIN_CORPORATE_ACTION_INTERVAL)

\* two transitions after its action a company is passed over by the
\* corporate step, its cooldown still running
C24_Witness ==
    /\ pc = "corporate"
    /\ lastSplit.decided.company # "none"
    /\ ~lastSplit.decided.scored
    /\ ~stocks[lastSplit.decided.company].isDelisted
    /\ \E k \in 1..Len(trackedCorporateActions) :
          /\ trackedCorporateActions[k].stockSymbol = lastSplit.decided.company
          /\ trackedCorporateActions[k].startDay = day - 1

\* C25: in the trading pass an AI investor with a network buys a company's
\* shares exactly when score > riskAversion and floor(0.2 x cash / price)
\* is positive: that many shares at the current close, cash reduced by
\* shares x price, one lot appended, one ledger entry due on the entered
\* day + 5 with the feature vector that produced the score. With a share
\* count of 0, for a buy or a sell, nothing changes and no entry is
\* appended. Stated for every outcome of the pass in which the investor's
\* network speaks up for one company at most.
C25_BuyRule ==
    pc = "trade" =>
        \A sc \in TradeDraws : \A i \in Traders : \A s \in Syms :
            (~stocks[s].isDelisted /\ \A x \in Syms \ {s} : sc[i][x] = 0) =>
                LET r == TradeResult(sc)
                    inv == investors[i]
                    after == r.investors[i]
                    price == Last(stocks[s].history).close
                    n == (inv.cash * 2) \div (10 * price)
                    held == GetSharesOwned(inv.portfolio, s)
                    buys == sc[i][s] > RiskAversion(i) /\ n > 0
                    sells == sc[i][s] < -RiskAversion(i) /\ held \div 2 > 0
                    lots == LotsOf(after.portfolio, s)
                    entry == Last(after.recentTrades)
                IN /\ buys =>
                        /\ after.cash = inv.cash - n * price
                        /\ Len(lots) = Len(LotsOf(inv.portfolio, s)) + 1
                        /\ SubSeq(lots, 1, Len(lots) - 1) = LotsOf(inv.portfolio, s)
                        /\ Last(lots).shares = n
                        /\ Last(lots).purchasePrice = price
                        /\ Last(lots).purchaseTime = time
                        /\ Len(after.recentTrades) = Len(inv.recentTrades) + 1
                        /\ SubSeq(after.recentTrades, 1, Len(inv.recentTrades))
                              = inv.recentTrades
                        /\ entry.type = "buy" /\ entry.symbol = s
                        /\ entry.shares = n /\ entry.price = price
                        /\ entry.day = day + 1
                        /\ entry.outcomeEvaluationDay = day + 1 + 5
                        /\ entry.indicatorValuesAtTrade = IndicatorValues(s, stocks)
                        /\ r.bought[i][s] = bought[i][s] + n
                   /\ ~buys => r.bought[i] = bought[i]
                   /\ (~buys /\ ~sells) =>
                        /\ after = inv
                        /\ r.sold[i] = sold[i]
                        /\ r.vols = dailyTradeVolumes

\* the trading pass has bought for ai-1: a lot dated to this pass and the
\* ledger entry of the purchase
C25_Witness ==
    /\ pc = "close"
    /\ investors["ai-1"].recentTrades # <<>>
    /\ Last(investors["ai-1"].recentTrades).type = "buy"
    /\ Last(investors["ai-1"].recentTrades).day = day + 1
    /\ \E s \in Syms :
          /\ LotsOf(investors["ai-1"].portfolio, s) # <<>>
          /\ Last(LotsOf(investors["ai-1"].portfolio, s)).purchaseTime = time
          /\ Last(investors["ai-1"].recentTrades).symbol = s

\* C26: annual tax settlement runs in exactly the daily transitions that
\* enter a day D with D mod 365 = 0: after the wrap-up of such a transition
\* every investor's waAnnualNetLTCG is zero, and the wrap-up of every
\* other transition changes no investor's cash, totalTaxesPaid or
\* waAnnualNetLTCG.
C26_AnnualSettlement ==
    [][(pc = "close") =>
       (IF (day + 1) % 365 = 0
        THEN \A i \in Invs : investors'[i].waAnnualNetLTCG = 0
        ELSE \A i \in Invs :
                /\ investors'[i].cash = investors[i].cash
                /\ investors'[i].totalTaxesPaid = investors[i].totalTaxesPaid
                /\ investors'[i].waAnnualNetLTCG = investors[i].waAnnualNetLTCG)]_vars

\* C27: when a news-category ledger entry matures, the training signal
\* applies only to the output slot of the chosen category index: every
\* other output slot of the news-picker network receives no error signal,
\* whatever the network currently answers to the entry's input.
C27_OnlyChosenSlotTrained ==
    pc = "settle" =>
        \A n \in 1..Len(trackedNewsEvents) :
            LET e == trackedNewsEvents[n]
                targets == NewsTargetArray(e, marketIndexHistory)
            IN (day + 1 >= e.evaluationDay) =>
                  \A out \in OutputSamples : \A k \in DOMAIN targets :
                      k # e.chosenCategoryIndex =>
                          OutputError(targets, out)[k] = 0

\* C28: no indicator computation divides by zero in any reachable state,
\* the one with all volumes of the 20-day window at 0 included: every
\* ratio whose denominator is zero yields 0 or omits its key, and never
\* NaN or Infinity. Stated for the indicators the trading pass computes
\* for every listed company.
C28_NoDivisionByZero ==
    pc = "trade" =>
        \A s \in ActiveSyms(stocks) :
            CalculateIndicators(s, stocks).volume_avg_20d_spike.kind
                \in {"number", "omitted"}

\* C29: no trade stays pending forever: every entry of an AI investor's
\* recentTrades is settled and removed within a bounded number of daily
\* transitions after its evaluation day, also after the first company of
\* the stock list has been delisted. The bound is the one transition by
\* which the settlement of trades trails the day counter: an entry still
\* pending has an evaluation day no more than one day back.
C29_NoTradePendingForever ==
    \A i \in Invs :
        \A n \in 1..Len(investors[i].recentTrades) :
            day <= investors[i].recentTrades[n].outcomeEvaluationDay + 1

\* the market value of investor i's holding in company s
HoldingValue(i, s, invs, st) ==
    GetSharesOwned(invs[i].portfolio, s) * Last(st[s].history).close

\* C30: a stock split leaves the market value of every investor's holding
\* in that company unchanged: for each investor, (sum of lot shares) x
\* (latest close) of the split company is the same right before and right
\* after the split, to the rounding of one cent per share.
C30_SplitKeepsHoldingValue ==
    [][(pc = "corporate" /\ Executed = "split") =>
       (LET s == lastSplit'.symbol
        IN \A i \in Invs :
              Abs(HoldingValue(i, s, investors', stocks')
                    - HoldingValue(i, s, investors, stocks))
                 <= GetSharesOwned(investors[i].portfolio, s))]_vars

\* close / reference price of a pending entry at the latest close, in
\* ten-thousandths: the ratio its settlement would divide out now
ReturnNow(symbol, reference, st) ==
    RDiv(Last(st[symbol].history).close * 10000, reference)

\* C31: the reference prices stored in pending ledger entries (price of
\* recentTrades, startingStockPrice of trackedCorporateActions) are on the
\* per-share basis of the close they are divided into at settlement: a
\* split does not by itself change the return of a pending entry of the
\* split company, and the entry the split creates starts at a return of
\* 0, both to a tenth of a percent.
C31_ReferencePricesFollowSplit ==
    [][(pc = "corporate" /\ Executed = "split") =>
       (LET s == lastSplit'.symbol
            old == Len(trackedCorporateActions)
        IN /\ \A n \in 1..Len(trackedCorporateActions') :
                LET a == trackedCorporateActions'[n]
                IN a.stockSymbol = s =>
                      Abs(ReturnNow(s, a.startingStockPrice, stocks')
                            - (IF n <= old
                               THEN ReturnNow(s, a.startingStockPrice, stocks)
                               ELSE 10000)) <= 10
           /\ \A i \in Invs : \A n \in 1..Len(investors'[i].recentTrades) :
                LET t == investors'[i].recentTrades[n]
                IN t.symbol = s =>
                      Abs(ReturnNow(s, t.price, stocks')
                            - ReturnNow(s, t.price, stocks)) <= 10)]_vars

\* the events generated in the running daily transition
EventsOfTheDay == {k \in 1..Len(eventHistory) : eventHistory[k].day = day + 1}

\* C32: on the day a company-specific event with scalar impact f is
\* generated for company X, X's close is multiplied by f exactly once in
\* that day's price update pass. Stated for a day whose only event is that
\* one, with f as X's daily impact and no event left active from before.
C32_CompanyImpactOnce ==
    [][(pc = "price") =>
        \A k \in EventsOfTheDay :
            LET e == eventHistory[k]
                X == e.stockSymbol
            IN (/\ EventsOfTheDay = {k}
                /\ X \in Syms /\ e.kind = "scalar"
                /\ ~stocks[X].isDelisted
                /\ dailyImpacts[X] = e.f
                /\ activeEvent \in {NoEvent, e})
               => Last(stocks'[X].history).close =
                     Max(1, MulF(ApplyDrag(Last(stocks[X].history).close,
                                           Sector(X)),
                                 e.f))]_vars

\* the entries of MACRO_EVENTS an event of the history was built from
ConfigsOf(ev) ==
    {k \in 1..Len(MACRO_EVENTS) :
        LET cfg == MACRO_EVENTS[k]
        IN /\ ev.type = cfg.type /\ ev.kind = cfg.kind /\ ev.f = cfg.f
           /\ ev.m = cfg.m /\ ev.region = cfg.region}

\* C33: the macro event applied in a daily transition belongs to the
\* category whose index is stored as chosenCategoryIndex in the
\* news-category ledger entry recorded for it.
C33_EventOfChosenCategory ==
    [][(pc = "macro" /\ day + 1 >= nextMacroEventDay) =>
        \A k \in ConfigsOf(eventHistory'[1]) :
            MACRO_EVENTS[k].category =
                NEWS_EVENT_CATEGORIES[Last(trackedNewsEvents').chosenCategoryIndex + 1]]_vars

\* C34: the purchaseTime stamped on a lot bought in a daily transition lies
\* within the simulated day the transition closes, between the midnight
\* that opened it and the midnight just crossed, also when one advanceTime
\* call spans several days; hence lots bought in different transitions
\* carry strictly increasing purchase times.
C34_PurchaseTimeInTradingDay ==
    [][(pc = "trade") =>
        \A i \in Invs : \A s \in Syms :
            LET before == LotsOf(investors[i].portfolio, s)
                after == LotsOf(investors'[i].portfolio, s)
            IN bought'[i][s] > bought[i][s] =>
                  /\ Last(after).purchaseTime >= nextDayBoundary - secondsInDay
                  /\ Last(after).purchaseTime <= nextDayBoundary
                  /\ \A n \in 1..Len(before) :
                        before[n].purchaseTime < Last(after).purchaseTime]_vars

\* the day numbers of consecutive points increase by exactly 1
DaysConsecutive(h) == \A n \in 1..(Len(h) - 1) : h[n + 1].day = h[n].day + 1

\* C35: between advanceTime calls the last price point of every active
\* company and the last market index point carry day = state.day, and
\* within each history the day numbers of consecutive points increase by
\* exactly 1.
C35_HistoriesDatedToTheDay ==
    pc = "idle" =>
        /\ \A s \in ActiveSyms(stocks) : Last(stocks[s].history).day = day
        /\ Last(marketIndexHistory).day = day
        /\ \A s \in Syms : DaysConsecutive(stocks[s].history)
        /\ DaysConsecutive(marketIndexHistory)

\* three calls have returned, a company was delisted on the way and the
\* histories have shifted their oldest points out
C35_Witness ==
    /\ pc = "idle"
    /\ day = StartDay + MaxDays
    /\ \E s \in Syms : stocks[s].isDelisted
    /\ \E s \in ActiveSyms(stocks) : stocks[s].history[1].day > StartDay - INITIAL_HISTORY_LENGTH - 50 + 1

\* C36: at least one company is active in every reachable state and every
\* sector that starts with an active company keeps one; hence the market
\* index is never taken over an empty set and no ledger entry stores a
\* starting market index of 0.
C36_SomeCompanyActive ==
    /\ ActiveSyms(stocks) # {}
    /\ \A s \in Syms : \E x \in ActiveSyms(stocks) : Sector(x) = Sector(s)
    /\ \A n \in 1..Len(marketIndexHistory) : marketIndexHistory[n].price > 0
    /\ \A n \in 1..Len(trackedCorporateActions) :
          trackedCorporateActions[n].startingMarketIndex > 0
    /\ \A n \in 1..Len(trackedNewsEvents) :
          trackedNewsEvents[n].startingMarketIndex > 0
    /\ \A n \in 1..Len(trackedGeneratedArticles) :
          trackedGeneratedArticles[n].startingMarketIndex > 0

\* an acquisition has delisted its target, and a market index point and a
\* ledger entry were recorded after it
C36_Witness ==
    /\ pc = "idle"
    /\ \E x \in Syms : stocks[x].isDelisted
    /\ trackedCorporateActions # <<>>
    /\ Last(trackedCorporateActions).actionType = "acquisition"
    /\ Last(marketIndexHistory).day > Last(trackedCorporateActions).startDay

\* C37: in every reachable state every lot of every investor's portfolio
\* has shares > 0 and every portfolio item has at least one lot: a sale
\* that exhausts a lot removes it, and a sale that exhausts the last lot of
\* a symbol removes the portfolio item.
C37_NoEmptyLotsOrItems ==
    \A i \in Invs : \A k \in 1..Len(investors[i].portfolio) :
        LET lots == investors[i].portfolio[k].lots
        IN /\ Len(lots) >= 1
           /\ \A n \in 1..Len(lots) : lots[n].shares > 0

\* the player has sold the whole of a holding of two lots, and the item
\* is gone from the portfolio
C37_Witness ==
    /\ sold["human-player"]["JPM"] = bought["human-player"]["JPM"]
    /\ sold["human-player"]["JPM"] > 0
    /\ FindItem(investors["human-player"].portfolio, "JPM") = 0
    /\ investors["human-player"].portfolio # <<>>

\* C38: an order of playerBuyStock that names a delisted company is
\* rejected, the investors are returned unchanged, and no investor, the
\* player or an AI, acquires shares of a company once it is delisted.
C38_NoBuyOfDelisted ==
    [][/\ (/\ pc = "idle"
           /\ lastCall'.op = "buy"
           /\ pc' = "called"
           /\ lastCall'.symbol \in Syms
           /\ stocks[lastCall'.symbol].isDelisted)
          => (lastCall'.why # "ok" /\ investors' = investors)
       /\ \A i \in Invs, s \in Syms :
             stocks[s].isDelisted => bought'[i][s] = bought[i][s]]_vars

\* the player orders shares of a delisted company
C38_Witness ==
    /\ pc = "called"
    /\ lastCall.op = "buy"
    /\ lastCall.investor = "human-player"
    /\ lastCall.symbol \in Syms
    /\ stocks[lastCall.symbol].isDelisted
    /\ lastCall.shares > 0

====
